---------------------------- MODULE Spec2Model ----------------------------
(***************************************************************************)
(* Verification model of the benedrone motion planner (Go).                *)
(*                                                                         *)
(* Coordinates are integers, so every cross product and comparison of the  *)
(* geometry kernel is exact.  A length (math.Sqrt) is a fixed-point number *)
(* with Scale units per coordinate unit, rounded down, the way the code's  *)
(* float64 is a rounded real.                                              *)
(***************************************************************************)
EXTENDS Integers, Sequences, FiniteSets, TLC

VARIABLES
    \* ---- one search (astar.go) and the visibility query around it
    req,          \* the RouteRequest: [Start, End]
    noFlyZones,   \* the obstacle set the query's graph is built from
    graph,        \* *Graph: [Nodes: id -> Point, Edges: id -> Seq(Edge)]
    startIdx,     \* AStarPathOnGraph's startIdx
    endIdx,       \* AStarPathOnGraph's endIdx
    nodeRec,      \* the *Node objects created so far: id -> [G, H, F, Parent]
    openSet,      \* ids in the priority queue (and in openSetMap)
    closedSet,    \* ids in closedSet
    path,         \* the returned []Point
    success,      \* the returned bool
    phase,        \* position of the query: "build", "search", "loop", "done",
                  \* "rejected"
    \* ---- the roadmap and the queries that overlay it (prm_graph.go)
    globalPRMGraph,  \* the shared *PRMGraph (<<>> while nil)
    nodeArrays,      \* backing arrays of []PRMNode slices: array id -> nodes
    intArrays,       \* backing arrays of []int slices: array id -> ints
    prmQuery,        \* per route query: position and locals
    \* ---- the servers' shared state and their request handlers (main.go)
    globalIndex,     \* the shared *SpatialIndex (<<>> while nil)
    indexMutex,      \* sync.RWMutex: [readers, writer]
    prmMutex,        \* sync.RWMutex: [readers, writer]
    handler,         \* per request goroutine: position, request, locals
    \* ---- calls of SimplifyPolygon (simplify.go)
    simplifyArg,     \* the polygon given to the first call
    epsilon,         \* the tolerance of the calls, in half units
    simplifyOut,     \* the polygons returned so far, each call fed the last
    \* ---- one call of a function that touches no shared state
    fnArgs,          \* the arguments of the call
    fnResult,        \* <<>> before the call, <<value returned>> after it
    \* ---- the priority queue of one search (astar.go, container/heap)
    pq,              \* the PriorityQueue slice: node ids in heap order
    nodesExplored    \* AStarPathOnGraph's nodesExplored

searchVars == <<req, noFlyZones, graph, startIdx, endIdx, nodeRec, openSet,
                closedSet, path, success, phase>>

prmVars == <<globalPRMGraph, nodeArrays, intArrays, prmQuery>>

srvVars == <<globalIndex, indexMutex, prmMutex, handler>>

simpVars == <<simplifyArg, epsilon, simplifyOut>>

callVars == <<fnArgs, fnResult>>

heapVars == <<pq, nodesExplored>>

vars == <<searchVars, prmVars, srvVars, simpVars, callVars, heapVars>>

-----------------------------------------------------------------------------
(* Bounds of the model *)

\* fixed-point units per coordinate unit for lengths
Scale == 100

\* most undirected edges of a graph drawn for a bare search
MaxEdges == 5

-----------------------------------------------------------------------------
(* Points, lengths *)

Pt(x, y) == [X |-> x, Y |-> y]

\* the zero value of Point (a missing key of map[int]Point reads as this)
ZeroPoint == Pt(0, 0)

Max2(a, b) == IF a >= b THEN a ELSE b
Min2(a, b) == IF a <= b THEN a ELSE b

RECURSIVE SqrtSearch(_, _, _)
\* the largest r in lo..hi with r*r <= n
SqrtSearch(n, lo, hi) ==
    IF lo >= hi THEN lo
    ELSE LET mid == (lo + hi + 1) \div 2
         IN  IF mid * mid <= n THEN SqrtSearch(n, mid, hi)
             ELSE SqrtSearch(n, lo, mid - 1)

\* math.Sqrt at the model's fixed-point resolution
Sqrt(n) == SqrtSearch(n * Scale * Scale, 0, Min2(n * Scale, 46340))

\* Point.Distance
Distance(p, other) ==
    LET dx == p.X - other.X
        dy == p.Y - other.Y
    IN  Sqrt(dx * dx + dy * dy)

-----------------------------------------------------------------------------
(* Geometry kernel (geometry.go) *)

\* direction: the cross product that gives the orientation
direction(p1, p2, p3) ==
    (p3.X - p1.X) * (p2.Y - p1.Y) - (p2.X - p1.X) * (p3.Y - p1.Y)

\* onSegment: q within the bounding box of p, r
onSegment(p, r, q) ==
    /\ q.X <= Max2(p.X, r.X) /\ q.X >= Min2(p.X, r.X)
    /\ q.Y <= Max2(p.Y, r.Y) /\ q.Y >= Min2(p.Y, r.Y)

Seg(a, b) == [P1 |-> a, P2 |-> b]

\* a plausible slip: the proper-crossing test dropped, only touching counts
DoSegmentsIntersectNoCrossing(seg1, seg2) ==
    LET p1 == seg1.P1
        p2 == seg1.P2
        p3 == seg2.P1
        p4 == seg2.P2
        d1 == direction(p3, p4, p1)
        d2 == direction(p3, p4, p2)
        d3 == direction(p1, p2, p3)
        d4 == direction(p1, p2, p4)
    IN  IF (p1 = p3 /\ p2 = p4) \/ (p1 = p4 /\ p2 = p3) THEN FALSE
        ELSE IF p1 = p3 \/ p1 = p4 \/ p2 = p3 \/ p2 = p4 THEN FALSE
        ELSE IF d1 = 0 /\ onSegment(p3, p4, p1) THEN TRUE
        ELSE IF d2 = 0 /\ onSegment(p3, p4, p2) THEN TRUE
        ELSE IF d3 = 0 /\ onSegment(p1, p2, p3) THEN TRUE
        ELSE IF d4 = 0 /\ onSegment(p1, p2, p4) THEN TRUE
        ELSE FALSE

\* a plausible slip: only identical and reversed segments are set apart, a
\* single shared endpoint is not
DoSegmentsIntersectSameOnly(seg1, seg2) ==
    LET p1 == seg1.P1
        p2 == seg1.P2
        p3 == seg2.P1
        p4 == seg2.P2
        d1 == direction(p3, p4, p1)
        d2 == direction(p3, p4, p2)
        d3 == direction(p1, p2, p3)
        d4 == direction(p1, p2, p4)
    IN  IF (p1 = p3 /\ p2 = p4) \/ (p1 = p4 /\ p2 = p3) THEN FALSE
        ELSE IF /\ ((d1 > 0 /\ d2 < 0) \/ (d1 < 0 /\ d2 > 0))
                /\ ((d3 > 0 /\ d4 < 0) \/ (d3 < 0 /\ d4 > 0)) THEN TRUE
        ELSE IF d1 = 0 /\ onSegment(p3, p4, p1) THEN TRUE
        ELSE IF d2 = 0 /\ onSegment(p3, p4, p2) THEN TRUE
        ELSE IF d3 = 0 /\ onSegment(p1, p2, p3) THEN TRUE
        ELSE IF d4 = 0 /\ onSegment(p1, p2, p4) THEN TRUE
        ELSE FALSE

DoSegmentsIntersect(seg1, seg2) ==
    LET p1 == seg1.P1
        p2 == seg1.P2
        p3 == seg2.P1
        p4 == seg2.P2
        d1 == direction(p3, p4, p1)
        d2 == direction(p3, p4, p2)
        d3 == direction(p1, p2, p3)
        d4 == direction(p1, p2, p4)
    IN  IF (p1 = p3 /\ p2 = p4) \/ (p1 = p4 /\ p2 = p3) THEN FALSE
        ELSE IF p1 = p3 \/ p1 = p4 \/ p2 = p3 \/ p2 = p4 THEN FALSE
        ELSE IF /\ ((d1 > 0 /\ d2 < 0) \/ (d1 < 0 /\ d2 > 0))
                /\ ((d3 > 0 /\ d4 < 0) \/ (d3 < 0 /\ d4 > 0)) THEN TRUE
        ELSE IF d1 = 0 /\ onSegment(p3, p4, p1) THEN TRUE
        ELSE IF d2 = 0 /\ onSegment(p3, p4, p2) THEN TRUE
        ELSE IF d3 = 0 /\ onSegment(p1, p2, p3) THEN TRUE
        ELSE IF d4 = 0 /\ onSegment(p1, p2, p4) THEN TRUE
        ELSE FALSE

\* vertex i+1 of a polygon, wrapping: Vertices[(i+1)%n], 1-based here
NextVertex(polygon, i) == polygon.Vertices[(i % Len(polygon.Vertices)) + 1]

\* The ray-casting test with the point given in 1/k coordinate units (k = 1 is
\* the code's call; k = 2 takes the midpoint (p1+p2)/2 as p1+p2, exactly).
PointInPolygonAt(point, polygon, k) ==
    LET n == Len(polygon.Vertices)
        Crosses(i) ==
            LET v1 == polygon.Vertices[i]
                v2 == NextVertex(polygon, i)
                slope == (point.X - k * v1.X) * (k * v2.Y - k * v1.Y)
                         - (k * v2.X - k * v1.X) * (point.Y - k * v1.Y)
            IN  /\ (k * v1.Y > point.Y) # (k * v2.Y > point.Y)
                /\ IF v2.Y > v1.Y THEN slope > 0 ELSE slope < 0
    IN  IF n < 3 THEN FALSE
        ELSE Cardinality({i \in 1..n : Crosses(i)}) % 2 = 1

IsPointInPolygon(point, polygon) == PointInPolygonAt(point, polygon, 1)

DoesSegmentIntersectPolygon(seg, polygon) ==
    \E i \in 1..Len(polygon.Vertices) :
        DoSegmentsIntersect(seg, Seg(polygon.Vertices[i], NextVertex(polygon, i)))

\* a plausible slip: the loop over the zones stops one short
IsPathClearSkipsLast(p1, p2, zones) ==
    \A z \in 1..(Len(zones) - 1) :
        /\ ~DoesSegmentIntersectPolygon(Seg(p1, p2), zones[z])
        /\ ~IsPointInPolygon(p1, zones[z])
        /\ ~IsPointInPolygon(p2, zones[z])
        /\ ~PointInPolygonAt(Pt(p1.X + p2.X, p1.Y + p2.Y), zones[z], 2)

IsPathClear(p1, p2, zones) ==
    \A z \in 1..Len(zones) :
        /\ ~DoesSegmentIntersectPolygon(Seg(p1, p2), zones[z])
        /\ ~IsPointInPolygon(p1, zones[z])
        /\ ~IsPointInPolygon(p2, zones[z])
        /\ ~PointInPolygonAt(Pt(p1.X + p2.X, p1.Y + p2.Y), zones[z], 2)

-----------------------------------------------------------------------------
(* The parts of the state a specification does not exercise stay as here *)

\* the route queries of the roadmap server
Queries == {1, 2}

\* a query that has not started
IdleQuery == [pc |-> "idle"]

\* the goroutines that serve build and route requests
Handlers == {1, 2}

\* an RWMutex nobody holds (writer 0: no writer)
FreeMutex == [readers |-> {}, writer |-> 0]

\* a goroutine between requests, with the status of its last response
IdleHandler(resp, zones) == [pc |-> "idle", resp |-> resp, zones |-> zones]

\* no index, both mutexes free, no request being served
NoServer ==
    /\ globalIndex = <<>>
    /\ indexMutex = FreeMutex
    /\ prmMutex = FreeMutex
    /\ handler = [h \in Handlers |-> IdleHandler("none", <<>>)]

\* no priority queue is being followed
NoHeap ==
    /\ pq = <<>>
    /\ nodesExplored = 0

\* no separate function call is being made
NoCall ==
    /\ fnArgs = <<>>
    /\ fnResult = <<>>

\* no polygon is being simplified
NoSimplify ==
    /\ simplifyArg = [Vertices |-> <<>>]
    /\ epsilon = 0
    /\ simplifyOut = <<>>

\* no roadmap built or loaded, no query running
NoRoadmap ==
    /\ globalPRMGraph = <<>>
    /\ nodeArrays = <<>>
    /\ intArrays = <<>>
    /\ prmQuery = [q \in Queries |-> IdleQuery]

-----------------------------------------------------------------------------
(* Graph (visibility_graph.go) and A* (astar.go) *)

Edge(to, cost) == [To |-> to, Cost |-> cost]

\* graph.Nodes[id]: a missing key reads as the zero Point
NodePoint(g, id) == IF id \in DOMAIN g.Nodes THEN g.Nodes[id] ELSE ZeroPoint

\* a plausible slip: the loop over the edges ends after the first one
EdgesOfFirstOnly(g, id) ==
    IF id \in DOMAIN g.Edges /\ Len(g.Edges[id]) >= 1 THEN <<g.Edges[id][1]>> ELSE <<>>

\* graph.Edges[id]: a missing key reads as the nil slice
EdgesOf(g, id) == IF id \in DOMAIN g.Edges THEN g.Edges[id] ELSE <<>>

\* a graph with no nodes
EmptyGraph == [Nodes |-> <<>>, Edges |-> <<>>]

\* &Node{NodeID, G, H, F, Parent}; Parent is <<>> for nil, <<id>> otherwise
NewNode(g, h, parent) == [G |-> g, H |-> h, F |-> g + h, Parent |-> parent]

\* a plausible slip: the heuristic counted twice (no longer admissible)
HeuristicDoubled(g, id, endPoint) == 2 * Distance(NodePoint(g, id), endPoint)

\* H of a node: straight-line distance to the end point
Heuristic(g, id, endPoint) == Distance(NodePoint(g, id), endPoint)

RECURSIVE ExploreNeighbors(_, _, _, _, _, _)
\* The loop over graph.Edges[current.NodeID] from edge k on; st = [rec, open]
ExploreNeighbors(g, current, k, st, closed, endPoint) ==
    LET edges == EdgesOf(g, current)
    IN  IF k > Len(edges) THEN st
        ELSE
          LET neighborID == edges[k].To
              tentativeG == st.rec[current].G + edges[k].Cost
              next ==
                IF neighborID \in closed THEN st
                ELSE IF neighborID \notin st.open THEN
                  [rec  |-> (neighborID :> NewNode(tentativeG,
                                 Heuristic(g, neighborID, endPoint), <<current>>))
                            @@ st.rec,
                   open |-> st.open \cup {neighborID}]
                ELSE IF tentativeG < st.rec[neighborID].G THEN
                  [rec  |-> [st.rec EXCEPT ![neighborID] =
                                 NewNode(tentativeG, @.H, <<current>>)],
                   open |-> st.open]
                ELSE st
          IN  ExploreNeighbors(g, current, k + 1, next, closed, endPoint)

RECURSIVE ReconstructIds(_, _)
\* the ids from the start to id, following Parent
ReconstructIds(rec, id) ==
    IF rec[id].Parent = <<>> THEN <<id>>
    ELSE Append(ReconstructIds(rec, rec[id].Parent[1]), id)

\* a plausible slip: the path is appended instead of prepended (goal first)
ReconstructPathAppended(g, rec, id) ==
    LET ids == ReconstructIds(rec, id)
    IN  [i \in 1..Len(ids) |-> NodePoint(g, ids[Len(ids) + 1 - i])]

\* for node := current; node != nil; node = node.Parent { path = prepend }
ReconstructPath(g, rec, id) ==
    LET ids == ReconstructIds(rec, id)
    IN  [i \in 1..Len(ids) |-> NodePoint(g, ids[i])]

\* heap.Pop returns an entry of least F; which one among equals depends on
\* the order the entries went in, which Go's map iteration leaves open
PopCandidates(rec, open) ==
    {n \in open : \A m \in open : rec[n].F <= rec[m].F}

\* AStarPathOnGraph up to the first loop test
AStarBegin ==
    /\ phase = "search"
    /\ nodeRec = <<>> /\ openSet = {} /\ closedSet = {}
    /\ IF DOMAIN graph.Nodes = {}
       THEN /\ path' = <<>>
            /\ success' = FALSE
            /\ phase' = "done"
            /\ UNCHANGED <<nodeRec, openSet>>
       ELSE /\ nodeRec' = (startIdx :>
                 NewNode(0, Distance(NodePoint(graph, startIdx),
                                     NodePoint(graph, endIdx)), <<>>))
            /\ openSet' = {startIdx}
            /\ phase' = "loop"
            /\ UNCHANGED <<path, success>>
    /\ UNCHANGED <<req, noFlyZones, graph, startIdx, endIdx, closedSet>>
    /\ UNCHANGED <<prmVars, srvVars, simpVars, callVars, heapVars>>

\* one iteration of the loop that pops the goal
AStarGoal ==
    /\ phase = "loop"
    /\ endIdx \in PopCandidates(nodeRec, openSet)
    /\ path' = ReconstructPath(graph, nodeRec, endIdx)
    /\ success' = TRUE
    /\ openSet' = openSet \ {endIdx}
    /\ phase' = "done"
    /\ UNCHANGED <<req, noFlyZones, graph, startIdx, endIdx, nodeRec, closedSet>>
    /\ UNCHANGED <<prmVars, srvVars, simpVars, callVars, heapVars>>

\* one iteration of the loop that pops another node and explores its edges
AStarExpand ==
    /\ phase = "loop"
    /\ \E current \in PopCandidates(nodeRec, openSet) \ {endIdx} :
         LET closed == closedSet \cup {current}
             st == ExploreNeighbors(graph, current, 1,
                       [rec |-> nodeRec, open |-> openSet \ {current}],
                       closed, NodePoint(graph, endIdx))
         IN  /\ closedSet' = closed
             /\ nodeRec' = st.rec
             /\ openSet' = st.open
    /\ UNCHANGED <<req, noFlyZones, graph, startIdx, endIdx, path, success, phase>>
    /\ UNCHANGED <<prmVars, srvVars, simpVars, callVars, heapVars>>

\* the loop ends with the open set empty: no path found
AStarExhausted ==
    /\ phase = "loop"
    /\ openSet = {}
    /\ path' = <<>>
    /\ success' = FALSE
    /\ phase' = "done"
    /\ UNCHANGED <<req, noFlyZones, graph, startIdx, endIdx, nodeRec, openSet, closedSet>>
    /\ UNCHANGED <<prmVars, srvVars, simpVars, callVars, heapVars>>

AStarPathOnGraph == AStarBegin \/ AStarGoal \/ AStarExpand \/ AStarExhausted

-----------------------------------------------------------------------------
(* Bare searches: graphs over fixed points with symmetric distance edges *)

\* Node points whose mutual distances are whole numbers (a 6 x 8 rectangle
\* and its centre), so that every length and every sum of lengths is exact.
TestPoints == (0 :> Pt(0, 0)) @@ (1 :> Pt(6, 8)) @@ (2 :> Pt(6, 0))
              @@ (3 :> Pt(0, 8)) @@ (4 :> Pt(3, 4))

TestIds == DOMAIN TestPoints

RECURSIVE SetToSeq(_)
\* the members of a finite set of integers, ascending
SetToSeq(S) ==
    IF S = {} THEN <<>>
    ELSE LET m == CHOOSE x \in S : \A y \in S : x <= y
         IN  <<m>> \o SetToSeq(S \ {m})

\* the graph over points pts whose undirected edges are the pairs in E
GraphOf(pts, E) ==
    [Nodes |-> pts,
     Edges |-> [i \in DOMAIN pts |->
                  LET nb == SetToSeq({j \in DOMAIN pts : {i, j} \in E})
                  IN  [k \in 1..Len(nb) |->
                         Edge(nb[k], Distance(pts[i], pts[nb[k]]))]]]

TestPairs == {{i, j} : i, j \in TestIds} \ {{i} : i \in TestIds}

InitAStar ==
    /\ req = [Start |-> ZeroPoint, End |-> ZeroPoint]
    /\ noFlyZones = <<>>
    /\ \/ graph = EmptyGraph
       \/ \E E \in SUBSET TestPairs :
            /\ Cardinality(E) <= MaxEdges
            /\ graph = GraphOf(TestPoints, E)
    /\ startIdx \in TestIds
    /\ endIdx \in TestIds
    /\ nodeRec = <<>> /\ openSet = {} /\ closedSet = {}
    /\ path = <<>> /\ success = FALSE
    /\ phase = "search"
    /\ NoRoadmap
    /\ NoServer
    /\ NoSimplify
    /\ NoCall
    /\ NoHeap

\* an id that is no key of the test graphs' node map
AbsentId == 9

\* a search called with the empty graph or with an absent start or end id
InitAStarAbsent ==
    /\ req = [Start |-> ZeroPoint, End |-> ZeroPoint]
    /\ noFlyZones = <<>>
    /\ \/ graph = EmptyGraph
       \/ \E E \in SUBSET TestPairs :
            /\ Cardinality(E) <= MaxEdges
            /\ graph = GraphOf(TestPoints, E)
    /\ startIdx \in TestIds \cup {AbsentId}
    /\ endIdx \in TestIds \cup {AbsentId}
    /\ \/ graph = EmptyGraph
       \/ startIdx = AbsentId
       \/ endIdx = AbsentId
    /\ nodeRec = <<>> /\ openSet = {} /\ closedSet = {}
    /\ path = <<>> /\ success = FALSE
    /\ phase = "search"
    /\ NoRoadmap
    /\ NoServer
    /\ NoSimplify
    /\ NoCall
    /\ NoHeap

\* the ids of the one-way test graphs
DirectedIds == {0, 1, 2, 3}

\* the graph over points pts with a one-way edge for every pair in E
DirectedGraphOf(pts, E) ==
    [Nodes |-> pts,
     Edges |-> [i \in DOMAIN pts |->
                  LET nb == SetToSeq({j \in DOMAIN pts : <<i, j>> \in E})
                  IN  [k \in 1..Len(nb) |->
                         Edge(nb[k], Distance(pts[i], pts[nb[k]]))]]]

\* a search on a graph of one-way edges, both ids present
InitAStarDirected ==
    /\ req = [Start |-> ZeroPoint, End |-> ZeroPoint]
    /\ noFlyZones = <<>>
    /\ \E E \in SUBSET {e \in DirectedIds \X DirectedIds : e[1] # e[2]} :
         /\ Cardinality(E) <= MaxEdges
         /\ graph = DirectedGraphOf([i \in DirectedIds |-> TestPoints[i]], E)
    /\ startIdx \in DirectedIds
    /\ endIdx \in DirectedIds
    /\ nodeRec = <<>> /\ openSet = {} /\ closedSet = {}
    /\ path = <<>> /\ success = FALSE
    /\ phase = "search"
    /\ NoRoadmap
    /\ NoServer
    /\ NoSimplify
    /\ NoCall
    /\ NoHeap

NextAStar == AStarBegin \/ AStarGoal \/ AStarExpand \/ AStarExhausted

SpecAStar == InitAStar /\ [][NextAStar]_vars

SpecAStarAbsent == InitAStarAbsent /\ [][NextAStar]_vars

SpecAStarDirected == InitAStarDirected /\ [][NextAStar]_vars

-----------------------------------------------------------------------------
(* The search with its priority queue spelled out (astar.go, container/heap) *)
\* hs = [pq, rec]: the slice of node ids and the Node objects; positions are
\* 0-based as in the code, pq[i + 1] is the code's pq[i].

\* &Node{...} with its Index field (-1: not in the heap)
NewHeapNode(g, h, parent) ==
    [G |-> g, H |-> h, F |-> g + h, Parent |-> parent, Index |-> -1]

\* PriorityQueue.Less
Less(hs, i, j) == hs.rec[hs.pq[i + 1]].F < hs.rec[hs.pq[j + 1]].F

\* PriorityQueue.Swap
Swap(hs, i, j) ==
    LET swapped == [hs.pq EXCEPT ![i + 1] = hs.pq[j + 1], ![j + 1] = hs.pq[i + 1]]
        first == [hs.rec EXCEPT ![swapped[i + 1]].Index = i]
    IN  [pq |-> swapped, rec |-> [first EXCEPT ![swapped[j + 1]].Index = j]]

\* PriorityQueue.Push
Push(hs, id) ==
    [pq |-> Append(hs.pq, id),
     rec |-> [hs.rec EXCEPT ![id].Index = Len(hs.pq)]]

\* a plausible slip: the last entry is returned and stays in the slice
PopKeepsEntry(hs) ==
    [pq |-> hs.pq, rec |-> hs.rec, node |-> hs.pq[Len(hs.pq)]]

\* PriorityQueue.Pop: the last entry leaves
Pop(hs) ==
    LET n == Len(hs.pq)
        node == hs.pq[n]
    IN  [pq |-> SubSeq(hs.pq, 1, n - 1),
         rec |-> [hs.rec EXCEPT ![node].Index = -1],
         node |-> node]

RECURSIVE heapUp(_, _)
\* container/heap up(h, j)
heapUp(hs, j) ==
    LET i == IF j = 0 THEN 0 ELSE (j - 1) \div 2
    IN  IF i = j \/ ~Less(hs, j, i) THEN hs
        ELSE heapUp(Swap(hs, i, j), i)

RECURSIVE heapDown(_, _, _)
\* container/heap down(h, i, n): the heap and the position reached
heapDown(hs, i, n) ==
    LET j1 == 2 * i + 1
        j == IF j1 + 1 < n /\ Less(hs, j1 + 1, j1) THEN j1 + 1 ELSE j1
    IN  IF j1 >= n THEN [hs |-> hs, i |-> i]
        ELSE IF ~Less(hs, j, i) THEN [hs |-> hs, i |-> i]
        ELSE heapDown(Swap(hs, i, j), j, n)

\* heap.Push
heapPush(hs, id) == heapUp(Push(hs, id), Len(hs.pq))

\* heap.Pop
heapPop(hs) ==
    LET n == Len(hs.pq) - 1
    IN  Pop(heapDown(Swap(hs, 0, n), 0, n).hs)

\* a plausible slip: the changed entry is left where it is
heapFixSkipped(hs, i) == hs

\* heap.Fix
heapFix(hs, i) ==
    LET d == heapDown(hs, i, Len(hs.pq))
    IN  IF d.i > i THEN d.hs ELSE heapUp(hs, i)

RECURSIVE ExploreNeighborsHeap(_, _, _, _, _, _)
\* The loop over graph.Edges[current.NodeID] from edge k on;
\* st = [pq, rec, open], open being the keys of openSetMap
ExploreNeighborsHeap(g, current, k, st, closed, endPoint) ==
    LET edges == EdgesOf(g, current)
    IN  IF k > Len(edges) THEN st
        ELSE
          LET neighborID == edges[k].To
              tentativeG == st.rec[current].G + edges[k].Cost
              hs == [pq |-> st.pq, rec |-> st.rec]
              next ==
                IF neighborID \in closed THEN st
                ELSE IF neighborID \notin st.open THEN
                  LET made == [hs EXCEPT !.rec =
                                 (neighborID :> NewHeapNode(tentativeG,
                                     Heuristic(g, neighborID, endPoint), <<current>>))
                                 @@ hs.rec]
                      pushed == heapPush(made, neighborID)
                  IN  [pq |-> pushed.pq, rec |-> pushed.rec,
                       open |-> st.open \cup {neighborID}]
                ELSE IF tentativeG < st.rec[neighborID].G THEN
                  LET old == hs.rec[neighborID]
                      better == [hs EXCEPT !.rec[neighborID] =
                                   [old EXCEPT !.G = tentativeG,
                                               !.F = tentativeG + old.H,
                                               !.Parent = <<current>>]]
                      fixed == heapFix(better, better.rec[neighborID].Index)
                  IN  [pq |-> fixed.pq, rec |-> fixed.rec, open |-> st.open]
                ELSE st
          IN  ExploreNeighborsHeap(g, current, k + 1, next, closed, endPoint)

\* AStarPathOnGraph up to the first loop test
AStarHeapBegin ==
    /\ phase = "search"
    /\ nodeRec = <<>> /\ openSet = {} /\ closedSet = {} /\ pq = <<>>
    /\ IF DOMAIN graph.Nodes = {}
       THEN /\ path' = <<>>
            /\ success' = FALSE
            /\ phase' = "done"
            /\ UNCHANGED <<nodeRec, openSet, pq>>
       ELSE LET h == Distance(NodePoint(graph, startIdx), NodePoint(graph, endIdx))
                pushed == heapPush([pq |-> <<>>,
                                    rec |-> (startIdx :> NewHeapNode(0, h, <<>>))],
                                   startIdx)
            IN  /\ nodeRec' = pushed.rec
                /\ pq' = pushed.pq
                /\ openSet' = {startIdx}
                /\ phase' = "loop"
                /\ UNCHANGED <<path, success>>
    /\ nodesExplored' = 0
    /\ UNCHANGED <<req, noFlyZones, graph, startIdx, endIdx, closedSet>>
    /\ UNCHANGED <<prmVars, srvVars, simpVars, callVars>>

\* one iteration of the loop that pops the goal
AStarHeapGoal ==
    /\ phase = "loop"
    /\ pq # <<>>
    /\ LET popped == heapPop([pq |-> pq, rec |-> nodeRec])
       IN  /\ popped.node = endIdx
           /\ pq' = popped.pq
           /\ nodeRec' = popped.rec
           /\ openSet' = openSet \ {popped.node}
           /\ path' = ReconstructPath(graph, popped.rec, popped.node)
    /\ nodesExplored' = nodesExplored + 1
    /\ success' = TRUE
    /\ phase' = "done"
    /\ UNCHANGED <<req, noFlyZones, graph, startIdx, endIdx, closedSet>>
    /\ UNCHANGED <<prmVars, srvVars, simpVars, callVars>>

\* one iteration of the loop that pops another node and explores its edges
AStarHeapExpand ==
    /\ phase = "loop"
    /\ pq # <<>>
    /\ LET popped == heapPop([pq |-> pq, rec |-> nodeRec])
           current == popped.node
           closed == closedSet \cup {current}
           st == ExploreNeighborsHeap(graph, current, 1,
                     [pq |-> popped.pq, rec |-> popped.rec,
                      open |-> openSet \ {current}],
                     closed, NodePoint(graph, endIdx))
       IN  /\ current # endIdx
           /\ closedSet' = closed
           /\ pq' = st.pq
           /\ nodeRec' = st.rec
           /\ openSet' = st.open
    /\ nodesExplored' = nodesExplored + 1
    /\ UNCHANGED <<req, noFlyZones, graph, startIdx, endIdx, path, success, phase>>
    /\ UNCHANGED <<prmVars, srvVars, simpVars, callVars>>

\* the loop test that finds the queue empty
AStarHeapExhausted ==
    /\ phase = "loop"
    /\ pq = <<>>
    /\ path' = <<>>
    /\ success' = FALSE
    /\ phase' = "done"
    /\ UNCHANGED <<req, noFlyZones, graph, startIdx, endIdx, nodeRec, openSet,
                   closedSet, pq, nodesExplored>>
    /\ UNCHANGED <<prmVars, srvVars, simpVars, callVars>>

\* the costs an edge of the priced test graphs may carry
CostChoices == {10 * Scale, 40 * Scale}

\* the one-way edges of the priced test graphs; the search starts at 0 and
\* ends at 3, whose own edges are never read
PricedPairs == {e \in DirectedIds \X DirectedIds : e[1] # e[2] /\ e[1] # 3}

\* the graph over points pts with a one-way edge of cost c[e] for every e in E
PricedGraphOf(pts, E, c) ==
    [Nodes |-> pts,
     Edges |-> [i \in DOMAIN pts |->
                  LET nb == SetToSeq({j \in DOMAIN pts : <<i, j>> \in E})
                  IN  [k \in 1..Len(nb) |-> Edge(nb[k], c[<<i, nb[k]>>])]]]

\* a search from 0 to 3 on a graph of one-way edges with free costs
InitHeap ==
    /\ req = [Start |-> ZeroPoint, End |-> ZeroPoint]
    /\ noFlyZones = <<>>
    /\ \E E \in SUBSET PricedPairs :
         /\ Cardinality(E) <= MaxEdges
         /\ \E c \in [E -> CostChoices] :
              graph = PricedGraphOf([i \in DirectedIds |-> TestPoints[i]], E, c)
    /\ startIdx = 0
    /\ endIdx = 3
    /\ nodeRec = <<>> /\ openSet = {} /\ closedSet = {}
    /\ path = <<>> /\ success = FALSE
    /\ phase = "search"
    /\ NoRoadmap
    /\ NoServer
    /\ NoSimplify
    /\ NoCall
    /\ NoHeap

NextHeap == AStarHeapBegin \/ AStarHeapGoal \/ AStarHeapExpand \/ AStarHeapExhausted

SpecHeap == InitHeap /\ [][NextHeap]_vars

-----------------------------------------------------------------------------
(* Visibility graph (visibility_graph.go) and the route query (main.go) *)

Polygon(vs) == [Vertices |-> vs]

\* the safety limit on unique nodes above which no edge is tested
MaxGraphNodes == 1000

\* a plausible slip: the cap on vertices taken for the limit on graph nodes
MaxTotalVerticesAsNodeLimit == MaxGraphNodes

\* the cap on candidate vertices above which the query is rejected
MaxTotalVertices == 10000

RECURSIVE AllVertices(_)
\* the vertices of the zones in the order the two loops visit them
AllVertices(zones) ==
    IF zones = <<>> THEN <<>>
    ELSE Head(zones).Vertices \o AllVertices(Tail(zones))

\* Graph.Nodes as BuildVisibilityGraph fills it: 0 is start, 1 is end, then
\* every vertex not seen before (vertexToIdx), numbered in visiting order
VisibilityNodes(start, end, zones) ==
    LET flat == AllVertices(zones)
        keep == {k \in 1..Len(flat) :
                   /\ flat[k] # start /\ flat[k] # end
                   /\ \A j \in 1..(k - 1) : flat[j] # flat[k]}
        numbered == {<<2 + Cardinality({j \in keep : j < k}), flat[k]>> : k \in keep}
    IN  [id \in 0..(Cardinality(keep) + 1) |->
           IF id = 0 THEN start
           ELSE IF id = 1 THEN end
           ELSE (CHOOSE p \in numbered : p[1] = id)[2]]

\* a plausible slip: the edge is appended to graph.Edges[i] only (i < j)
VisibilityEdgesOneWay(nodes, zones) ==
    [i \in DOMAIN nodes |->
       LET nb == SetToSeq({j \in DOMAIN nodes :
                    /\ j > i
                    /\ IsPathClear(nodes[i], nodes[j], zones)})
       IN  [k \in 1..Len(nb) |-> Edge(nb[k], Distance(nodes[i], nodes[nb[k]]))]]

\* the edge lists of the full construction: every pair i < j with a clear path
VisibilityEdges(nodes, zones) ==
    [i \in DOMAIN nodes |->
       LET nb == SetToSeq({j \in DOMAIN nodes :
                    /\ j # i
                    /\ IsPathClear(nodes[Min2(i, j)], nodes[Max2(i, j)], zones)})
       IN  [k \in 1..Len(nb) |-> Edge(nb[k], Distance(nodes[i], nodes[nb[k]]))]]

BuildVisibilityGraph(start, end, zones) ==
    LET nodes == VisibilityNodes(start, end, zones)
        totalNodes == Cardinality(DOMAIN nodes)
    IN  IF totalNodes > MaxGraphNodes
        THEN [Nodes |-> nodes,
              Edges |-> (0 :> <<Edge(1, Distance(start, end))>>)
                        @@ (1 :> <<Edge(0, Distance(start, end))>>)]
        ELSE [Nodes |-> nodes, Edges |-> VisibilityEdges(nodes, zones)]

TotalVertices(zones) == Len(AllVertices(zones))

\* routeHandler from the vertex cap to the call of AStarPathOnGraph(graph, 0, 1)
RouteBuildGraph ==
    /\ phase = "build"
    /\ IF TotalVertices(noFlyZones) > MaxTotalVertices
       THEN /\ phase' = "rejected"
            /\ UNCHANGED <<graph, startIdx, endIdx>>
       ELSE /\ graph' = BuildVisibilityGraph(req.Start, req.End, noFlyZones)
            /\ startIdx' = 0
            /\ endIdx' = 1
            /\ phase' = "search"
    /\ UNCHANGED <<req, noFlyZones, nodeRec, openSet, closedSet, path, success>>
    /\ UNCHANGED <<prmVars, srvVars, simpVars, callVars, heapVars>>

\* The candidate obstacles of the visibility queries
Square == Polygon(<<Pt(0, 0), Pt(10, 0), Pt(10, 10), Pt(0, 10)>>)

Wedge == Polygon(<<Pt(12, 2), Pt(14, 4), Pt(12, 8)>>)

\* vertices along one side of the long band
BandLength == 500

\* a long thin band whose 2 * BandLength vertices are all distinct
Band ==
    Polygon([k \in 1..(2 * BandLength) |->
               IF k <= BandLength THEN Pt(k - 1, 20)
               ELSE Pt(2 * BandLength - k, 22)])

\* as many bands as fit under the vertex cap
BandsAtCap == [i \in 1..(MaxTotalVertices \div (2 * BandLength)) |-> Band]

\* candidate lists around the vertex cap
CapZoneChoices == {BandsAtCap, BandsAtCap \o <<Wedge>>, BandsAtCap \o <<Band>>}

QueryPoints == {Pt(-5, 5), Pt(15, 5), Pt(5, 5), Pt(0, 0), Pt(5, -3), Pt(11, 5)}

ZoneChoices == {<<>>, <<Square>>, <<Square, Wedge>>}

InitVis ==
    /\ \/ /\ noFlyZones \in ZoneChoices
          /\ req \in [Start : QueryPoints, End : QueryPoints]
       \/ /\ noFlyZones = <<Band>>
          /\ req \in [Start : {Pt(3, 18)}, End : {Pt(4, 24), Pt(40, 18)}]
       \/ /\ noFlyZones \in CapZoneChoices
          /\ req \in [Start : {Pt(3, 18)}, End : {Pt(4, 24)}]
    /\ graph = EmptyGraph
    /\ startIdx = 0 /\ endIdx = 0
    /\ nodeRec = <<>> /\ openSet = {} /\ closedSet = {}
    /\ path = <<>> /\ success = FALSE
    /\ phase = "build"
    /\ NoRoadmap
    /\ NoServer
    /\ NoSimplify
    /\ NoCall
    /\ NoHeap

NextVis == RouteBuildGraph \/ AStarBegin \/ AStarGoal \/ AStarExpand \/ AStarExhausted

SpecVis == InitVis /\ [][NextVis]_vars

-----------------------------------------------------------------------------
(* Roadmap (prm_graph.go): slices are headers over shared backing arrays *)

\* a Go slice value: backing array, length, capacity
Slice(arr, len, cap) == [arr |-> arr, len |-> len, cap |-> cap]

\* make([]int, 0)
EmptySlice == Slice(0, 0, 0)

\* the elements a slice shows: the first len entries of its backing array
Elems(arrays, sl) == IF sl.len = 0 THEN <<>> ELSE SubSeq(arrays[sl.arr], 1, sl.len)

\* the capacity append gives a full slice of capacity cap (doubling)
GrowCap(cap) == IF cap = 0 THEN 1 ELSE 2 * cap

RECURSIVE GrownCap(_, _)
\* the capacity of a slice grown from capacity cap by n single appends
GrownCap(cap, n) == IF cap >= n THEN cap ELSE GrownCap(GrowCap(cap), n)

\* append(sl, v): writes in place when capacity is left, otherwise copies to
\* the new array `fresh`; gives the arrays and the new slice value
GoAppend(arrays, sl, v, fresh) ==
    IF sl.len < sl.cap
    THEN [arrays |-> [arrays EXCEPT ![sl.arr][sl.len + 1] = v],
          slice  |-> Slice(sl.arr, sl.len + 1, sl.cap)]
    ELSE LET ncap == GrowCap(sl.cap)
             content == [k \in 1..ncap |->
                           IF k <= sl.len THEN arrays[sl.arr][k]
                           ELSE IF k = sl.len + 1 THEN v ELSE 0]
         IN  [arrays |-> (fresh :> content) @@ arrays,
              slice  |-> Slice(fresh, sl.len + 1, ncap)]

\* a plausible slip: the id taken after the sample counter was advanced
PRMNodeCountedFirst(id, point, edges) ==
    [ID |-> id + 1, Point |-> point, Edges |-> edges]

PRMNode(id, point, edges) == [ID |-> id, Point |-> point, Edges |-> edges]

\* the zero value of PRMNode
ZeroNode == PRMNode(0, ZeroPoint, EmptySlice)

\* the sampling region, in hundredths of a degree
NetherlandsMinLat == 5075
NetherlandsMaxLat == 5355
NetherlandsMinLon == 336
NetherlandsMaxLon == 723

\* the array that holds the roadmap's nodes
RoadmapArr == 1

\* distance (prm_graph.go)
distance(p1, p2) ==
    LET dx == p1.X - p2.X
        dy == p1.Y - p2.Y
    IN  Sqrt(dx * dx + dy * dy)

DoesEdgeIntersectPolygon(p1, p2, polygon) ==
    DoesSegmentIntersectPolygon(Seg(p1, p2), polygon)

\* the test both builders apply to a candidate edge: within the radius and
\* crossing no zone boundary
EdgeAllowed(p1, p2, radius, zones) ==
    /\ distance(p1, p2) <= radius
    /\ \A z \in 1..Len(zones) : ~DoesEdgeIntersectPolygon(p1, p2, zones[z])

\* a plausible slip: the loop condition written attempts <= maxAttempts
maxAttemptsInclusive(numSamples) == numSamples * 10 + 1

\* maxAttempts := numSamples * 10
maxAttempts(numSamples) == numSamples * 10

\* the point the random generator yields at an attempt (1-based): the draws,
\* repeated
DrawAt(draws, attempt) == draws[((attempt - 1) % Len(draws)) + 1]

RECURSIVE SampleLoop(_, _, _, _, _)
\* the sampling loop from a given number of attempts and accepted points:
\* gives the accepted points and the attempts made when it ends
SampleLoop(numSamples, zones, draws, attempts, acc) ==
    IF ~(Len(acc) < numSamples /\ attempts < maxAttempts(numSamples))
    THEN [points |-> acc, attempts |-> attempts]
    ELSE LET point == DrawAt(draws, attempts + 1)
             inside == \E z \in 1..Len(zones) : IsPointInPolygon(point, zones[z])
         IN  SampleLoop(numSamples, zones, draws, attempts + 1,
                        IF inside THEN acc ELSE Append(acc, point))

\* the nodes' points the sampling loop leaves
SamplePoints(numSamples, zones, draws, attempts, acc) ==
    SampleLoop(numSamples, zones, draws, attempts, acc).points

\* BuildPRMGraph: the roadmap, its node array and its edge arrays.  Node i
\* (0-based) keeps its neighbours in array i + 1, grown by single appends.
BuildPRMGraph(numSamples, connectionRadius, zones, draws) ==
    LET pts == SamplePoints(numSamples, zones, draws, 0, <<>>)
        n == Len(pts)
        nbrs(i) == SetToSeq({j \in 0..(n - 1) :
                      /\ j # i
                      /\ EdgeAllowed(pts[Min2(i, j) + 1], pts[Max2(i, j) + 1],
                                     connectionRadius, zones)})
        edgeArr(i) == LET nb == nbrs(i)
                      IN  [k \in 1..GrownCap(0, Len(nb)) |->
                             IF k <= Len(nb) THEN nb[k] ELSE 0]
    IN  [graph |-> [Nodes |-> Slice(RoadmapArr, n, numSamples),
                    BoundingBox |-> [MinLat |-> NetherlandsMinLat,
                                     MaxLat |-> NetherlandsMaxLat,
                                     MinLon |-> NetherlandsMinLon,
                                     MaxLon |-> NetherlandsMaxLon],
                    NumSamples |-> numSamples,
                    ConnectionRadius |-> connectionRadius],
         nodeArrays |-> (RoadmapArr :>
             [k \in 1..numSamples |->
                IF k <= n
                THEN PRMNode(k - 1, pts[k],
                             Slice(k, Len(nbrs(k - 1)),
                                   GrownCap(0, Len(nbrs(k - 1)))))
                ELSE ZeroNode]),
         intArrays |-> [k \in 1..n |-> edgeArr(k - 1)]]

\* g.Nodes[i] (0-based)
NodeAt(arrays, sl, i) == arrays[sl.arr][i + 1]

\* the array a query's copy of node j's edges goes to when append must copy
PrivateArr(g, q, j) == (g.Nodes.len + 2) * q + j + 1

\* the array of a query's tempGraph.Nodes
TempArr(q) == RoadmapArr + q

\* a plausible slip: tempGraph.Nodes shares the roadmap's node array
MakeTempNodesAliased(arrays, g, q) ==
    [arrays |-> [arrays EXCEPT ![g.Nodes.arr] =
                    [k \in 1..(g.Nodes.len + 2) |->
                       IF k <= g.Nodes.len THEN arrays[g.Nodes.arr][k] ELSE ZeroNode]],
     slice  |-> Slice(g.Nodes.arr, g.Nodes.len + 2, g.Nodes.len + 2)]

\* make([]PRMNode, len(g.Nodes)+2) and copy(tempGraph.Nodes, g.Nodes): the
\* node structs are copied, their Edges slices still share the arrays
MakeTempNodes(arrays, g, q) ==
    [arrays |-> (TempArr(q) :>
                   [k \in 1..(g.Nodes.len + 2) |->
                      IF k <= g.Nodes.len THEN arrays[g.Nodes.arr][k] ELSE ZeroNode])
                @@ arrays,
     slice  |-> Slice(TempArr(q), g.Nodes.len + 2, g.Nodes.len + 2)]

\* One pass of a connect loop of CreateGraphWithStartEnd: endpoint node id
\* `own` at point p against roadmap node i; gives the arrays after it
ConnectStep(nArrs, iArrs, g, q, temp, own, p, i, zones) ==
    IF EdgeAllowed(p, NodeAt(nArrs, g.Nodes, i).Point, g.ConnectionRadius, zones)
    THEN LET a1 == GoAppend(iArrs, NodeAt(nArrs, temp, own).Edges, i,
                            PrivateArr(g, q, own))
             a2 == GoAppend(a1.arrays, NodeAt(nArrs, temp, i).Edges, own,
                            PrivateArr(g, q, i))
         IN  [nodeArrays |-> [nArrs EXCEPT ![temp.arr][own + 1].Edges = a1.slice,
                                           ![temp.arr][i + 1].Edges = a2.slice],
              intArrays  |-> a2.arrays,
              connected  |-> TRUE]
    ELSE [nodeArrays |-> nArrs, intArrays |-> iArrs, connected |-> FALSE]

\* PRMGraph.ConvertToGraph on the nodes a slice shows: map entries are keyed
\* by node.ID (a later node with the same ID overwrites), neighbours are
\* looked up by position
ConvertToGraph(nArrs, iArrs, sl) ==
    LET ns == Elems(nArrs, sl)
        ids == {ns[k].ID : k \in 1..Len(ns)}
        last(id) == CHOOSE k \in 1..Len(ns) :
                       /\ ns[k].ID = id
                       /\ \A k2 \in (k + 1)..Len(ns) : ns[k2].ID # id
        edges(node) == LET nb == Elems(iArrs, node.Edges)
                       IN  [k \in 1..Len(nb) |->
                              Edge(nb[k], Distance(node.Point, ns[nb[k] + 1].Point))]
    IN  [Nodes |-> [id \in ids |-> ns[last(id)].Point],
         Edges |-> [id \in ids |-> edges(ns[last(id)])]]

\* connection radius of the roadmaps (0.1 degree)
ConnectionRadius == 10 * Scale

\* the draws of the random generator behind each candidate roadmap: a hub with
\* three leaves, a chain, and a hub with three leaves and one far node
PRMDrawChoices ==
    { <<Pt(400, 5100), Pt(408, 5100), Pt(392, 5100), Pt(400, 5108)>>,
      <<Pt(392, 5100), Pt(400, 5100), Pt(408, 5100)>>,
      <<Pt(408, 5100), Pt(392, 5100), Pt(400, 5108), Pt(400, 5100), Pt(430, 5100)>> }

PRMStarts == {Pt(400, 5095), Pt(384, 5100)}

PRMEnds == {Pt(416, 5100), Pt(400, 5092)}

Blocker == Polygon(<<Pt(399, 5097), Pt(401, 5097), Pt(400, 5098)>>)

\* zones across the only links of the start (384, 5100) and the end (416, 5100)
StartFence == Polygon(<<Pt(388, 5099), Pt(388, 5101), Pt(389, 5100)>>)

EndFence == Polygon(<<Pt(412, 5099), Pt(412, 5101), Pt(411, 5100)>>)

PRMZoneChoices == {<<>>, <<Blocker>>, <<StartFence, EndFence>>}

\* routeHandler (PRM server) up to the first loop of CreateGraphWithStartEnd:
\* read the roadmap pointer, allocate the copy, add the two endpoint nodes
PRMRouteBeginWith(q, start, end, zones) ==
    /\ prmQuery[q].pc \in {"idle", "done"}
    /\ prmMutex.writer = 0
    /\ globalPRMGraph # <<>>
    /\ LET g == globalPRMGraph
           n == g.Nodes.len
           t == MakeTempNodes(nodeArrays, g, q)
           mine == {PrivateArr(g, q, j) : j \in 0..(n + 1)}
       IN  /\ nodeArrays' = [t.arrays EXCEPT
                               ![t.slice.arr][n + 1] = PRMNode(n, start, EmptySlice),
                               ![t.slice.arr][n + 2] = PRMNode(n + 1, end, EmptySlice)]
           /\ intArrays' = [k \in (DOMAIN intArrays) \ mine |-> intArrays[k]]
           /\ prmQuery' = [prmQuery EXCEPT ![q] =
                             [pc |-> IF n = 0 THEN "connected" ELSE "start",
                              Start |-> start, End |-> end,
                              NoFlyZones |-> zones, g |-> g, temp |-> t.slice,
                              i |-> 0, startConnected |-> FALSE,
                              endConnected |-> FALSE]]
    /\ UNCHANGED <<globalPRMGraph, searchVars, srvVars, simpVars, callVars, heapVars>>

\* a route request of the PRM server with one of the sample requests
PRMRouteBegin(q) ==
    \E start \in PRMStarts, end \in PRMEnds, zones \in PRMZoneChoices :
        PRMRouteBeginWith(q, start, end, zones)

\* one pass of the loop that connects the start point
PRMConnectStart(q) ==
    LET c == prmQuery[q] IN
    /\ c.pc = "start"
    /\ c.i < c.g.Nodes.len
    /\ LET r == ConnectStep(nodeArrays, intArrays, c.g, q, c.temp,
                            c.g.Nodes.len, c.Start, c.i, c.NoFlyZones)
           last == (c.i + 1 = c.g.Nodes.len)
       IN  /\ nodeArrays' = r.nodeArrays
           /\ intArrays' = r.intArrays
           /\ prmQuery' = [prmQuery EXCEPT ![q] =
                             [c EXCEPT !.startConnected = c.startConnected \/ r.connected,
                                       !.i = IF last THEN 0 ELSE c.i + 1,
                                       !.pc = IF last THEN "end" ELSE "start"]]
    /\ UNCHANGED <<globalPRMGraph, searchVars, srvVars, simpVars, callVars, heapVars>>

\* one pass of the loop that connects the end point
PRMConnectEnd(q) ==
    LET c == prmQuery[q] IN
    /\ c.pc = "end"
    /\ c.i < c.g.Nodes.len
    /\ LET r == ConnectStep(nodeArrays, intArrays, c.g, q, c.temp,
                            c.g.Nodes.len + 1, c.End, c.i, c.NoFlyZones)
           last == (c.i + 1 = c.g.Nodes.len)
       IN  /\ nodeArrays' = r.nodeArrays
           /\ intArrays' = r.intArrays
           /\ prmQuery' = [prmQuery EXCEPT ![q] =
                             [c EXCEPT !.endConnected = c.endConnected \/ r.connected,
                                       !.i = IF last THEN 0 ELSE c.i + 1,
                                       !.pc = IF last THEN "connected" ELSE "end"]]
    /\ UNCHANGED <<globalPRMGraph, searchVars, srvVars, simpVars, callVars, heapVars>>

\* the return of CreateGraphWithStartEnd and, in routeHandler, the conversion
\* of the copy for the search (skipped when an endpoint id is -1)
PRMRouteAnswer(q) ==
    LET c == prmQuery[q]
        n == c.g.Nodes.len
        startNodeID == IF ~c.startConnected THEN -1 ELSE n
        endNodeID == IF c.startConnected /\ ~c.endConnected THEN -1 ELSE n + 1
    IN  /\ c.pc = "connected"
        /\ prmQuery' = [prmQuery EXCEPT ![q] =
              [pc |-> "done", Start |-> c.Start, End |-> c.End,
               NoFlyZones |-> c.NoFlyZones, g |-> c.g, temp |-> c.temp,
               startNodeID |-> startNodeID, endNodeID |-> endNodeID,
               graph |-> IF startNodeID = -1 \/ endNodeID = -1
                         THEN EmptyGraph
                         ELSE ConvertToGraph(nodeArrays, intArrays, c.temp)]]
        /\ UNCHANGED <<globalPRMGraph, nodeArrays, intArrays, searchVars, srvVars, simpVars, callVars, heapVars>>

\* no search is running
SearchIdle ==
    /\ req = [Start |-> ZeroPoint, End |-> ZeroPoint]
    /\ noFlyZones = <<>>
    /\ graph = EmptyGraph
    /\ startIdx = 0 /\ endIdx = 0
    /\ nodeRec = <<>> /\ openSet = {} /\ closedSet = {}
    /\ path = <<>> /\ success = FALSE
    /\ phase = "idle"

\* a roadmap built at startup, two route queries in flight
InitPRM ==
    /\ \E draws \in PRMDrawChoices :
         LET b == BuildPRMGraph(Len(draws), ConnectionRadius, <<>>, draws)
         IN  /\ globalPRMGraph = b.graph
             /\ nodeArrays = b.nodeArrays
             /\ intArrays = b.intArrays
    /\ prmQuery = [q \in Queries |-> IdleQuery]
    /\ SearchIdle
    /\ NoServer
    /\ NoSimplify
    /\ NoCall
    /\ NoHeap

NextPRM ==
    \E q \in Queries :
        \/ PRMRouteBegin(q)
        \/ PRMConnectStart(q)
        \/ PRMConnectEnd(q)
        \/ PRMRouteAnswer(q)

SpecPRM == InitPRM /\ [][NextPRM]_vars

\* a route query that starts only when no other query is in flight
PRMRouteBeginAlone(q) ==
    /\ \A o \in Queries : prmQuery[o].pc \in {"idle", "done"}
    /\ PRMRouteBegin(q)

\* the queries of either server, each running alone: a visibility query, or
\* roadmap queries one after the other
InitAlone == InitVis \/ InitPRM

NextAlone ==
    \/ NextVis
    \/ \E q \in Queries :
        \/ PRMRouteBeginAlone(q)
        \/ PRMConnectStart(q)
        \/ PRMConnectEnd(q)
        \/ PRMRouteAnswer(q)

SpecAlone == InitAlone /\ [][NextAlone]_vars

-----------------------------------------------------------------------------
(* The servers: spatial index (spatial_index.go) and the request handlers *)

SetMin(S) == CHOOSE x \in S : \A y \in S : x <= y

SetMax(S) == CHOOSE x \in S : \A y \in S : x >= y

\* rtreego.NewRect: a rectangle needs positive lengths.  Rectangles are kept
\* in half units, so that half of a route's width is a whole number.
NewRect(minX, minY, maxX, maxY) ==
    [ok |-> (maxX - minX > 0 /\ maxY - minY > 0),
     MinX |-> minX, MinY |-> minY, MaxX |-> maxX, MaxY |-> maxY]

calculateBoundingBox(polygon) ==
    IF Len(polygon.Vertices) = 0
    THEN [ok |-> TRUE, MinX |-> 0, MinY |-> 0, MaxX |-> 0, MaxY |-> 0]
    ELSE LET xs == {polygon.Vertices[k].X : k \in 1..Len(polygon.Vertices)}
             ys == {polygon.Vertices[k].Y : k \in 1..Len(polygon.Vertices)}
         IN  NewRect(2 * SetMin(xs), 2 * SetMin(ys), 2 * SetMax(xs), 2 * SetMax(ys))

\* NewSpatialIndex: the entries inserted, in insertion order
NewSpatialIndex(polygons) ==
    LET entry(k) == [Polygon |-> polygons[k], BBox |-> calculateBoundingBox(polygons[k])]
        inserted(e) == e.BBox.ok
    IN  [tree |-> SelectSeq([k \in 1..Len(polygons) |-> entry(k)], inserted)]

\* rectangles that overlap in both dimensions
intersect(r1, r2) ==
    ~(\/ r2.MaxX <= r1.MinX \/ r1.MaxX <= r2.MinX
      \/ r2.MaxY <= r1.MinY \/ r1.MaxY <= r2.MinY)

\* SpatialIndex.QueryRegion on a rectangle in half units
QueryRegion(si, minX, minY, maxX, maxY) ==
    LET bbox == NewRect(minX, minY, maxX, maxY)
        hit(e) == intersect(e.BBox, bbox)
        results == SelectSeq(si.tree, hit)
    IN  IF ~bbox.ok THEN <<>>
        ELSE [k \in 1..Len(results) |-> results[k].Polygon]

\* a plausible slip: margin and expansion added up
GetRouteBoundingBoxSummed(start, end, margin, expansionFactor) ==
    LET baseMinX == Min2(start.X, end.X)
        baseMaxX == Max2(start.X, end.X)
        baseMinY == Min2(start.Y, end.Y)
        baseMaxY == Max2(start.Y, end.Y)
        extraX == 2 * margin + (baseMaxX - baseMinX) * expansionFactor
        extraY == 2 * margin + (baseMaxY - baseMinY) * expansionFactor
    IN  [MinX |-> 2 * baseMinX - extraX, MinY |-> 2 * baseMinY - extraY,
         MaxX |-> 2 * baseMaxX + extraX, MaxY |-> 2 * baseMaxY + extraY]

\* GetRouteBoundingBoxWithFactor, in half units
GetRouteBoundingBoxWithFactor(start, end, margin, expansionFactor) ==
    LET baseMinX == Min2(start.X, end.X)
        baseMaxX == Max2(start.X, end.X)
        baseMinY == Min2(start.Y, end.Y)
        baseMaxY == Max2(start.Y, end.Y)
        extraX == Max2(2 * margin, (baseMaxX - baseMinX) * expansionFactor)
        extraY == Max2(2 * margin, (baseMaxY - baseMinY) * expansionFactor)
    IN  [MinX |-> 2 * baseMinX - extraX, MinY |-> 2 * baseMinY - extraY,
         MaxX |-> 2 * baseMaxX + extraX, MaxY |-> 2 * baseMaxY + extraY]

\* the default margin of a route request
DefaultMargin == 1000

\* the default number of samples of a roadmap build
DefaultNumSamples == 500

\* the rectangle routeHandler queries the index with, in half units
RouteQueryBox(r) ==
    IF r.CustomBBox # <<>>
    THEN [MinX |-> 2 * r.CustomBBox.MinX, MinY |-> 2 * r.CustomBBox.MinY,
          MaxX |-> 2 * r.CustomBBox.MaxX, MaxY |-> 2 * r.CustomBBox.MaxY]
    ELSE GetRouteBoundingBoxWithFactor(r.Start, r.End,
             IF r.Margin = 0 THEN DefaultMargin ELSE r.Margin,
             IF r.ExpansionFactor = 0 THEN 1 ELSE r.ExpansionFactor)

RouteRequest(start, end, margin, factor, box) ==
    [Start |-> start, End |-> end, Margin |-> margin,
     ExpansionFactor |-> factor, CustomBBox |-> box]

\* the route requests, index contents and build requests the clients send
RouteRequests ==
    { RouteRequest(Pt(-5, 5), Pt(15, 5), 0, 0, <<>>),
      RouteRequest(Pt(-5, 5), Pt(-1, 5), 1, 1, <<>>),
      RouteRequest(Pt(11, 5), Pt(15, 5), 0, 0,
                   [MinX |-> 11, MinY |-> 1, MaxX |-> 15, MaxY |-> 9]) }

IndexInputs == {<<Square>>, <<Square, Wedge>>}

RadiusInputs == {0, 9 * Scale}

\* createSpatialIndexHandler up to its decision: the existence check under
\* the read lock, then either the conflict response or on to the build
CreateIndexCheck(h) ==
    /\ handler[h].pc = "idle"
    /\ indexMutex.writer = 0
    /\ \E force \in BOOLEAN, polygons \in IndexInputs :
         LET alreadyExists == globalIndex # <<>>
         IN  handler' = [handler EXCEPT ![h] =
                IF alreadyExists /\ ~force
                THEN IdleHandler("conflict", <<>>)
                ELSE [pc |-> "ci_lock", Force |-> force, Polygons |-> polygons]]
    /\ UNCHANGED <<globalIndex, indexMutex, prmMutex, searchVars, prmVars, simpVars, callVars, heapVars>>

\* indexMutex.Lock()
CreateIndexLock(h) ==
    /\ handler[h].pc = "ci_lock"
    /\ indexMutex = FreeMutex
    /\ indexMutex' = [indexMutex EXCEPT !.writer = h]
    /\ handler' = [handler EXCEPT ![h].pc = "ci_store"]
    /\ UNCHANGED <<globalIndex, prmMutex, searchVars, prmVars, simpVars, callVars, heapVars>>

\* globalIndex = NewSpatialIndex(polygons); indexMutex.Unlock(); respond
CreateIndexStore(h) ==
    /\ handler[h].pc = "ci_store"
    /\ globalIndex' = NewSpatialIndex(handler[h].Polygons)
    /\ indexMutex' = FreeMutex
    /\ handler' = [handler EXCEPT ![h] = IdleHandler("ok", <<>>)]
    /\ UNCHANGED <<prmMutex, searchVars, prmVars, simpVars, callVars, heapVars>>

\* buildPRMGraphHandler up to its decision (the file is not written:
\* saveToFile is false)
BuildPRMCheck(h) ==
    /\ handler[h].pc = "idle"
    /\ prmMutex.writer = 0
    /\ \E force \in BOOLEAN, draws \in PRMDrawChoices, radius \in RadiusInputs :
         LET alreadyExists == globalPRMGraph # <<>>
         IN  handler' = [handler EXCEPT ![h] =
                IF alreadyExists /\ ~force
                THEN IdleHandler("conflict", <<>>)
                ELSE [pc |-> "bp_lock", Force |-> force,
                      NumSamples |-> IF Len(draws) = 0 THEN DefaultNumSamples
                                     ELSE Len(draws),
                      ConnectionRadius |-> IF radius = 0 THEN ConnectionRadius
                                           ELSE radius,
                      NoFlyZones |-> <<>>, draws |-> draws]]
    /\ UNCHANGED <<globalIndex, indexMutex, prmMutex, searchVars, prmVars, simpVars, callVars, heapVars>>

\* graph := BuildPRMGraph(...); prmMutex.Lock()
BuildPRMLock(h) ==
    /\ handler[h].pc = "bp_lock"
    /\ prmMutex = FreeMutex
    /\ prmMutex' = [prmMutex EXCEPT !.writer = h]
    /\ handler' = [handler EXCEPT ![h].pc = "bp_store"]
    /\ UNCHANGED <<globalIndex, indexMutex, searchVars, prmVars, simpVars, callVars, heapVars>>

\* globalPRMGraph = graph; prmMutex.Unlock(); respond
BuildPRMStore(h) ==
    /\ handler[h].pc = "bp_store"
    /\ LET c == handler[h]
           b == BuildPRMGraph(c.NumSamples, c.ConnectionRadius, c.NoFlyZones, c.draws)
       IN  /\ globalPRMGraph' = b.graph
           /\ nodeArrays' = b.nodeArrays
           /\ intArrays' = b.intArrays
    /\ prmMutex' = FreeMutex
    /\ handler' = [handler EXCEPT ![h] = IdleHandler("ok", <<>>)]
    /\ UNCHANGED <<globalIndex, indexMutex, searchVars, prmQuery, simpVars, callVars, heapVars>>

\* routeHandler (main.go): the request is decoded
RouteStart(h) ==
    /\ handler[h].pc = "idle"
    /\ \E r \in RouteRequests :
         handler' = [handler EXCEPT ![h] = [pc |-> "rt_nilcheck", req |-> r]]
    /\ UNCHANGED <<globalIndex, indexMutex, prmMutex, searchVars, prmVars, simpVars, callVars, heapVars>>

\* if globalIndex == nil { respond 400 } -- no lock is taken for this read
RouteNilCheck(h) ==
    /\ handler[h].pc = "rt_nilcheck"
    /\ handler' = [handler EXCEPT ![h] =
          IF globalIndex = <<>> THEN IdleHandler("no index", <<>>)
          ELSE [handler[h] EXCEPT !.pc = "rt_rlock"]]
    /\ UNCHANGED <<globalIndex, indexMutex, prmMutex, searchVars, prmVars, simpVars, callVars, heapVars>>

\* indexMutex.RLock()
RouteRLock(h) ==
    /\ handler[h].pc = "rt_rlock"
    /\ indexMutex.writer = 0
    /\ indexMutex' = [indexMutex EXCEPT !.readers = @ \cup {h}]
    /\ handler' = [handler EXCEPT ![h].pc = "rt_query"]
    /\ UNCHANGED <<globalIndex, prmMutex, searchVars, prmVars, simpVars, callVars, heapVars>>

\* noFlyZones = globalIndex.QueryRegion(...); indexMutex.RUnlock(); the
\* query then goes on as RouteBuildGraph and the search
RouteQuery(h) ==
    /\ handler[h].pc = "rt_query"
    /\ LET box == RouteQueryBox(handler[h].req)
       IN  handler' = [handler EXCEPT ![h] =
              IdleHandler("queried",
                  QueryRegion(globalIndex, box.MinX, box.MinY, box.MaxX, box.MaxY))]
    /\ indexMutex' = [indexMutex EXCEPT !.readers = @ \ {h}]
    /\ UNCHANGED <<globalIndex, prmMutex, searchVars, prmVars, simpVars, callVars, heapVars>>

\* both servers started with nothing built
InitSrv ==
    /\ NoServer
    /\ NoSimplify
    /\ NoCall
    /\ NoRoadmap
    /\ SearchIdle
    /\ NoHeap

NextSrv ==
    \E h \in Handlers :
        \/ CreateIndexCheck(h)
        \/ CreateIndexLock(h)
        \/ CreateIndexStore(h)
        \/ BuildPRMCheck(h)
        \/ BuildPRMLock(h)
        \/ BuildPRMStore(h)
        \/ RouteStart(h)
        \/ RouteNilCheck(h)
        \/ RouteRLock(h)
        \/ RouteQuery(h)

SpecSrv == InitSrv /\ [][NextSrv]_vars

-----------------------------------------------------------------------------
(* Polygon simplification (simplify.go) *)

\* perpendicularDistance, squared and kept exact as the fraction num / den
perpendicularDistance(point, lineStart, lineEnd) ==
    LET dx == lineEnd.X - lineStart.X
        dy == lineEnd.Y - lineStart.Y
        mag2 == dx * dx + dy * dy
        pvx == point.X - lineStart.X
        pvy == point.Y - lineStart.Y
        pvdot == dx * pvx + dy * pvy
    IN  IF mag2 > 0
        THEN [num |-> (pvx * pvx + pvy * pvy) * mag2 - pvdot * pvdot, den |-> mag2]
        ELSE [num |-> pvx * pvx + pvy * pvy, den |-> 1]

\* d1 > d2 for two distances
FartherThan(d1, d2) == d1.num * d2.den > d2.num * d1.den

\* d > eps for a tolerance eps in half units
ExceedsEpsilon(d, eps) == 4 * d.num > eps * eps * d.den

RECURSIVE FarthestScan(_, _, _, _)
\* the loop of douglasPeucker over i (0-based): the first point farthest from
\* the line between the first and the last point
FarthestScan(points, i, index, dmax) ==
    IF i >= Len(points) - 1 THEN [index |-> index, dmax |-> dmax]
    ELSE LET d == perpendicularDistance(points[i + 1], points[1], points[Len(points)])
         IN  IF FartherThan(d, dmax)
             THEN FarthestScan(points, i + 1, i, d)
             ELSE FarthestScan(points, i + 1, index, dmax)

RECURSIVE douglasPeucker(_, _)
douglasPeucker(points, eps) ==
    IF Len(points) <= 2 THEN points
    ELSE LET f == FarthestScan(points, 1, 0, [num |-> 0, den |-> 1])
         IN  IF ExceedsEpsilon(f.dmax, eps)
             THEN LET left == douglasPeucker(SubSeq(points, 1, f.index + 1), eps)
                      right == douglasPeucker(SubSeq(points, f.index + 1, Len(points)), eps)
                  IN  SubSeq(left, 1, Len(left) - 1) \o right
             ELSE <<points[1], points[Len(points)]>>

\* a plausible slip: the simplified ring is returned without its closing vertex
SimplifyPolygonNotReclosed(polygon, eps) ==
    LET vs == polygon.Vertices
        n == Len(vs)
    IN  IF n <= 3 THEN polygon
        ELSE IF vs[1] = vs[n]
        THEN LET simplified == douglasPeucker(Append(SubSeq(vs, 1, n - 1), vs[1]), eps)
                 cut == SubSeq(simplified, 1, Len(simplified) - 1)
             IN  IF Len(cut) >= 3 THEN Polygon(cut) ELSE polygon
        ELSE Polygon(douglasPeucker(vs, eps))

\* SimplifyPolygon; on whole coordinates the closeThreshold test is equality
SimplifyPolygon(polygon, eps) ==
    LET vs == polygon.Vertices
        n == Len(vs)
    IN  IF n <= 3 THEN polygon
        ELSE IF vs[1] = vs[n]
        THEN LET openPolygon == SubSeq(vs, 1, n - 1)
                 simplified == douglasPeucker(Append(openPolygon, openPolygon[1]), eps)
             IN  IF Len(simplified) > 1
                 THEN LET cut == SubSeq(simplified, 1, Len(simplified) - 1)
                      IN  IF Len(cut) >= 3 THEN Polygon(Append(cut, cut[1]))
                          ELSE polygon
                 ELSE Polygon(simplified)
        ELSE Polygon(douglasPeucker(vs, eps))

\* the first call
SimplifyFirst ==
    /\ simplifyOut = <<>>
    /\ simplifyOut' = <<SimplifyPolygon(simplifyArg, epsilon)>>
    /\ UNCHANGED <<simplifyArg, epsilon, searchVars, prmVars, srvVars, callVars, heapVars>>

\* a second call on the polygon the first returned
SimplifyAgain ==
    /\ Len(simplifyOut) = 1
    /\ simplifyOut' = Append(simplifyOut, SimplifyPolygon(simplifyOut[1], epsilon))
    /\ UNCHANGED <<simplifyArg, epsilon, searchVars, prmVars, srvVars, callVars, heapVars>>

\* most vertices of a polygon before its closing vertex
MaxVerts == 4

\* the lattice the vertices are drawn from
LatticePoints == {Pt(x, y) : x \in 0..2, y \in 0..1}

\* tolerances 0, 1/2, 1 and 2
EpsilonChoices == {0, 1, 2, 4}

\* every vertex list over the lattice, given as is or with the first vertex
\* repeated at the end
InitSimplify ==
    /\ \E n \in 0..MaxVerts : \E chain \in [1..n -> LatticePoints] :
         \/ simplifyArg = Polygon(chain)
         \/ n >= 1 /\ simplifyArg = Polygon(Append(chain, chain[1]))
    /\ epsilon \in EpsilonChoices
    /\ simplifyOut = <<>>
    /\ NoServer
    /\ NoRoadmap
    /\ SearchIdle
    /\ NoCall
    /\ NoHeap

NextSimplify == SimplifyFirst \/ SimplifyAgain

SpecSimplify == InitSimplify /\ [][NextSimplify]_vars

-----------------------------------------------------------------------------
(* Range queries on a freshly built index (spatial_index.go) *)

\* the polygons a client may index: every triangle of the lattice, flat ones
\* included
IndexedTriangles == {Polygon(vs) : vs \in [1..3 -> LatticePoints]}

\* query rectangles with minX <= maxX and minY <= maxY
QueryRects ==
    {r \in [MinX : 0..2, MinY : 0..1, MaxX : 0..2, MaxY : 0..1] :
        r.MinX <= r.MaxX /\ r.MinY <= r.MaxY}

\* NewSpatialIndex(polygons).QueryRegion(minX, minY, maxX, maxY)
IndexAndQuery ==
    /\ fnResult = <<>>
    /\ fnResult' = <<QueryRegion(NewSpatialIndex(fnArgs.polygons),
                                 2 * fnArgs.rect.MinX, 2 * fnArgs.rect.MinY,
                                 2 * fnArgs.rect.MaxX, 2 * fnArgs.rect.MaxY)>>
    /\ UNCHANGED <<fnArgs, searchVars, prmVars, srvVars, simpVars, heapVars>>

InitIndex ==
    /\ \E t \in IndexedTriangles, r \in QueryRects :
         \/ fnArgs = [polygons |-> <<t>>, rect |-> r]
         \/ fnArgs = [polygons |-> <<Square, t>>, rect |-> r]
    /\ fnResult = <<>>
    /\ NoServer
    /\ NoRoadmap
    /\ SearchIdle
    /\ NoSimplify
    /\ NoHeap

NextIndex == IndexAndQuery

SpecIndex == InitIndex /\ [][NextIndex]_vars

-----------------------------------------------------------------------------
(* Removal of contained polygons (merge.go) *)

BBox(minX, minY, maxX, maxY) == [MinX |-> minX, MinY |-> minY, MaxX |-> maxX, MaxY |-> maxY]

getBBox(poly) ==
    IF Len(poly.Vertices) = 0 THEN BBox(0, 0, 0, 0)
    ELSE LET xs == {poly.Vertices[k].X : k \in 1..Len(poly.Vertices)}
             ys == {poly.Vertices[k].Y : k \in 1..Len(poly.Vertices)}
         IN  BBox(SetMin(xs), SetMin(ys), SetMax(xs), SetMax(ys))

isBBoxContained(a, b) ==
    /\ a.MinX >= b.MinX /\ a.MaxX <= b.MaxX
    /\ a.MinY >= b.MinY /\ a.MaxY <= b.MaxY

\* a plausible slip: the roles of the two polygons exchanged
isPolygonContainedInSwapped(a, b) ==
    /\ Len(a.Vertices) # 0 /\ Len(b.Vertices) # 0
    /\ isBBoxContained(getBBox(b), getBBox(a))
    /\ \A k \in 1..Len(b.Vertices) : IsPointInPolygon(b.Vertices[k], a)

\* isPolygonContainedIn: polygon a lies within polygon b
isPolygonContainedIn(a, b) ==
    /\ Len(a.Vertices) # 0 /\ Len(b.Vertices) # 0
    /\ isBBoxContained(getBBox(a), getBBox(b))
    /\ \A k \in 1..Len(a.Vertices) : IsPointInPolygon(a.Vertices[k], b)

RECURSIVE ContainedInner(_, _, _, _)
\* the loop over j for one i (both 1-based): gives the contained flags
ContainedInner(polygons, i, j, contained) ==
    IF j > Len(polygons) THEN contained
    ELSE IF i = j \/ contained[j] THEN ContainedInner(polygons, i, j + 1, contained)
    ELSE IF isPolygonContainedIn(polygons[i], polygons[j])
         THEN [contained EXCEPT ![i] = TRUE]
    ELSE IF isPolygonContainedIn(polygons[j], polygons[i])
         THEN ContainedInner(polygons, i, j + 1, [contained EXCEPT ![j] = TRUE])
    ELSE ContainedInner(polygons, i, j + 1, contained)

RECURSIVE ContainedOuter(_, _, _)
\* the loop over i
ContainedOuter(polygons, i, contained) ==
    IF i > Len(polygons) THEN contained
    ELSE IF contained[i] THEN ContainedOuter(polygons, i + 1, contained)
    ELSE ContainedOuter(polygons, i + 1, ContainedInner(polygons, i, 1, contained))

RECURSIVE KeepUnflagged(_, _, _)
\* the polygons from position i on whose flag is not set, in order
KeepUnflagged(polygons, contained, i) ==
    IF i > Len(polygons) THEN <<>>
    ELSE (IF contained[i] THEN <<>> ELSE <<polygons[i]>>)
         \o KeepUnflagged(polygons, contained, i + 1)

removeContainedPolygons(polygons) ==
    IF Len(polygons) <= 1 THEN polygons
    ELSE KeepUnflagged(polygons,
             ContainedOuter(polygons, 1, [k \in 1..Len(polygons) |-> FALSE]), 1)

MergeOverlappingPolygons(polygons) ==
    IF Len(polygons) <= 1 THEN polygons
    ELSE removeContainedPolygons(polygons)

MergeCall ==
    /\ fnResult = <<>>
    /\ fnResult' = <<MergeOverlappingPolygons(fnArgs.polygons)>>
    /\ UNCHANGED <<fnArgs, searchVars, prmVars, srvVars, simpVars, heapVars>>

\* corner, side and centre points of the square
MergePoints ==
    <<Pt(0, 0), Pt(5, 0), Pt(10, 0), Pt(0, 5), Pt(5, 5), Pt(10, 5),
      Pt(0, 10), Pt(5, 10), Pt(10, 10)>>

\* a triangle well inside the square
InnerTriangle == Polygon(<<Pt(2, 2), Pt(4, 2), Pt(2, 4)>>)

\* the polygons to merge: the triangles over MergePoints, flat ones included,
\* the square, a triangle inside it, and a polygon of one repeated point
MergePolygons ==
    {Polygon(<<MergePoints[t[1]], MergePoints[t[2]], MergePoints[t[3]]>>) :
        t \in {u \in (1..9) \X (1..9) \X (1..9) : u[1] < u[2] /\ u[2] < u[3]}}
    \cup {Square, InnerTriangle, Polygon(<<Pt(5, 5), Pt(5, 5), Pt(5, 5)>>)}

\* most polygons in one call
MaxMerged == 3

\* the polygons that may follow the first two of a list
LaterPolygons ==
    {Square, InnerTriangle, Polygon(<<Pt(0, 0), Pt(10, 0), Pt(10, 10)>>)}

InitMerge ==
    /\ \E n \in 0..MaxMerged :
       \E first \in [1..Min2(n, 2) -> MergePolygons] :
       \E later \in [1..(n - Min2(n, 2)) -> LaterPolygons] :
         fnArgs = [polygons |-> first \o later]
    /\ fnResult = <<>>
    /\ NoServer
    /\ NoRoadmap
    /\ SearchIdle
    /\ NoSimplify
    /\ NoHeap

NextMerge == MergeCall

SpecMerge == InitMerge /\ [][NextMerge]_vars

-----------------------------------------------------------------------------
(* Saving and loading a roadmap (prm_graph.go, encoding/json) *)

\* json.MarshalIndent of a Point: fields under their json tags
MarshalPoint(p) == [x |-> p.X, y |-> p.Y]

\* json.MarshalIndent of a PRMNode; a slice is written as the array of the
\* elements it shows
MarshalPRMNode(iArrs, node) ==
    [id |-> node.ID, point |-> MarshalPoint(node.Point),
     edges |-> Elems(iArrs, node.Edges)]

\* json.MarshalIndent of a *PRMGraph: the document SavePRMGraph writes
MarshalPRMGraph(nArrs, iArrs, g) ==
    LET ns == Elems(nArrs, g.Nodes)
    IN  [nodes |-> [k \in 1..Len(ns) |-> MarshalPRMNode(iArrs, ns[k])],
         boundingBox |-> [minLat |-> g.BoundingBox.MinLat,
                          maxLat |-> g.BoundingBox.MaxLat,
                          minLon |-> g.BoundingBox.MinLon,
                          maxLon |-> g.BoundingBox.MaxLon],
         numSamples |-> g.NumSamples,
         connectionRadius |-> g.ConnectionRadius]

\* the array that holds the nodes of a loaded roadmap, and the array that
\* holds the neighbours of its node at position k (1-based), given the
\* highest array id in use
LoadedNodesArr == RoadmapArr + Cardinality(Queries) + 1

LoadedEdgesArr(top, k) == top + k

\* a plausible slip: the neighbour list is not read back (tag mismatch)
UnmarshalPRMNodeNoEdges(doc, arr) ==
    PRMNode(doc.id, Pt(doc.point.x, doc.point.y), Slice(arr, 0, 0))

\* json.Unmarshal into a PRMNode: the decoder grows the slice by appends
UnmarshalPRMNode(doc, arr) ==
    PRMNode(doc.id, Pt(doc.point.x, doc.point.y),
            Slice(arr, Len(doc.edges), GrownCap(0, Len(doc.edges))))

\* json.Unmarshal into a PRMGraph: the loaded roadmap and the arrays it owns
UnmarshalPRMGraph(doc, top) ==
    LET n == Len(doc.nodes)
        cap == GrownCap(0, n)
        pad(seq, c, zero) == [k \in 1..c |-> IF k <= Len(seq) THEN seq[k] ELSE zero]
    IN  [graph |-> [Nodes |-> Slice(LoadedNodesArr, n, cap),
                    BoundingBox |-> [MinLat |-> doc.boundingBox.minLat,
                                     MaxLat |-> doc.boundingBox.maxLat,
                                     MinLon |-> doc.boundingBox.minLon,
                                     MaxLon |-> doc.boundingBox.maxLon],
                    NumSamples |-> doc.numSamples,
                    ConnectionRadius |-> doc.connectionRadius],
         nodeArrays |-> (LoadedNodesArr :>
             [k \in 1..cap |->
                IF k <= n THEN UnmarshalPRMNode(doc.nodes[k], LoadedEdgesArr(top, k))
                ELSE ZeroNode]),
         intArrays |-> [a \in {LoadedEdgesArr(top, k) : k \in 1..n} |->
             LET k == a - top
             IN  pad(doc.nodes[k].edges, GrownCap(0, Len(doc.nodes[k].edges)), 0)]]

\* SavePRMGraph(globalPRMGraph, filename): fnResult holds the file's content
SavePRMGraph ==
    /\ fnResult = <<>>
    /\ globalPRMGraph # <<>>
    /\ fnResult' = <<MarshalPRMGraph(nodeArrays, intArrays, globalPRMGraph)>>
    /\ UNCHANGED <<fnArgs, searchVars, prmVars, srvVars, simpVars, heapVars>>

\* LoadPRMGraph(filename): fnResult also holds the roadmap returned
LoadPRMGraph ==
    /\ Len(fnResult) = 1
    /\ LET top == SetMax(DOMAIN intArrays \cup {0})
           l == UnmarshalPRMGraph(fnResult[1], top)
       IN  /\ nodeArrays' = l.nodeArrays @@ nodeArrays
           /\ intArrays' = l.intArrays @@ intArrays
           /\ fnResult' = Append(fnResult, l.graph)
    /\ UNCHANGED <<fnArgs, globalPRMGraph, prmQuery, searchVars, srvVars, simpVars, heapVars>>

\* the points the generator may draw for the roadmaps that are saved
SavedDrawPoints ==
    {Pt(400, 5100), Pt(408, 5100), Pt(392, 5100), Pt(400, 5108), Pt(430, 5100)}

\* most samples of a saved roadmap
MaxSavedSamples == 4

\* a roadmap built by BuildPRMGraph, not yet saved
InitSaveLoad ==
    /\ \E n \in 0..MaxSavedSamples : \E draws \in [1..n -> SavedDrawPoints] :
       \E radius \in {ConnectionRadius, 2 * ConnectionRadius} :
         LET b == BuildPRMGraph(n, radius, <<>>, draws)
         IN  /\ globalPRMGraph = b.graph
             /\ nodeArrays = b.nodeArrays
             /\ intArrays = b.intArrays
    /\ prmQuery = [q \in Queries |-> IdleQuery]
    /\ fnArgs = [filename |-> "prm_graph.json"]
    /\ fnResult = <<>>
    /\ SearchIdle
    /\ NoServer
    /\ NoSimplify
    /\ NoHeap

NextSaveLoad == SavePRMGraph \/ LoadPRMGraph

SpecSaveLoad == InitSaveLoad /\ [][NextSaveLoad]_vars

-----------------------------------------------------------------------------
(* Path tests against one polygon (geometry.go) *)

\* the points polygon vertices are taken from
VertexGrid == {Pt(x, y) : x \in {0, 2, 4}, y \in {0, 2, 4}}

\* triangles and quadrilaterals over the grid, distinct vertices, both
\* orientations, simple or not, each listed from its first vertex in
\* reading order
GridPolygons ==
    {Polygon(vs) : vs \in {v \in [1..3 -> VertexGrid] \cup [1..4 -> VertexGrid] :
        /\ \A i, j \in DOMAIN v : i # j => v[i] # v[j]
        /\ \A i \in DOMAIN v : 5 * v[1].Y + v[1].X <= 5 * v[i].Y + v[i].X}}

\* the end points of the segments tested: in and around the grid, off the
\* grid lines and on them
ProbePoints ==
    {Pt(x, y) : x \in {1, 3}, y \in {1, 3}}
    \cup {Pt(1, 2), Pt(2, 1), Pt(3, 2), Pt(2, 3)}
    \cup {Pt(-1, -1), Pt(5, 5), Pt(-1, 5), Pt(5, -1)}
    \cup {Pt(-1, 2), Pt(5, 2), Pt(2, -1), Pt(2, 5), Pt(5, 3)}

\* IsPathClear(p, q, {Q}) and IsPathClear(q, p, {Q})
IsPathClearCall ==
    /\ fnResult = <<>>
    /\ fnArgs # <<>>
    /\ fnResult' = <<IsPathClear(fnArgs.p, fnArgs.q, <<fnArgs.Q>>),
                     IsPathClear(fnArgs.q, fnArgs.p, <<fnArgs.Q>>)>>
    /\ UNCHANGED <<fnArgs, searchVars, prmVars, srvVars, simpVars, heapVars>>

\* a polygon and a segment: between two probe points, or along an edge
InitClear ==
    /\ \E Q \in GridPolygons :
         \/ \E p, q \in ProbePoints : fnArgs = [Q |-> Q, p |-> p, q |-> q]
         \/ \E i \in 1..Len(Q.Vertices) :
              fnArgs = [Q |-> Q, p |-> Q.Vertices[i], q |-> NextVertex(Q, i)]
    /\ fnResult = <<>>
    /\ SearchIdle
    /\ NoRoadmap
    /\ NoServer
    /\ NoSimplify
    /\ NoHeap

NextClear == IsPathClearCall

SpecClear == InitClear /\ [][NextClear]_vars

-----------------------------------------------------------------------------
(* The tolerance of the route query (main.go, simplify.go) *)
\* Tolerances and request values are in units of 0.00001.

\* baseEpsilon: 0.00002 degrees
BaseEpsilon == 2

\* 1.0 in tolerance units
One == 100000

\* EstimateSimplificationEpsilon
EstimateSimplificationEpsilon(polygons, currentVertexCount) ==
    IF Len(polygons) = 0 THEN 10
    ELSE LET samplePoint == polygons[1].Vertices[1]
         IN  IF /\ samplePoint.X >= -180 /\ samplePoint.X <= 180
                /\ samplePoint.Y >= -90 /\ samplePoint.Y <= 90
             THEN IF currentVertexCount > 50000 THEN BaseEpsilon * 10
                  ELSE IF currentVertexCount > 30000 THEN BaseEpsilon * 7
                  ELSE IF currentVertexCount > 20000 THEN BaseEpsilon * 5
                  ELSE IF currentVertexCount > 10000 THEN BaseEpsilon * 4
                  ELSE IF currentVertexCount > 5000 THEN BaseEpsilon * 3
                  ELSE IF currentVertexCount > 2000 THEN BaseEpsilon * 2
                  ELSE IF currentVertexCount > 1000 THEN (BaseEpsilon * 3) \div 2
                  ELSE BaseEpsilon
             ELSE IF currentVertexCount > 50000 THEN 20 * One
                  ELSE IF currentVertexCount > 30000 THEN 15 * One
                  ELSE IF currentVertexCount > 20000 THEN 10 * One
                  ELSE IF currentVertexCount > 10000 THEN 7 * One
                  ELSE IF currentVertexCount > 5000 THEN 5 * One
                  ELSE IF currentVertexCount > 2000 THEN 3 * One
                  ELSE IF currentVertexCount > 1000 THEN 2 * One
                  ELSE One

\* routeHandler's choice of epsilon: the request's value times 0.00002 when
\* one is given and positive, the zero value of the variable otherwise
\* (<<>> is the nil pointer)
ChooseEpsilon(simplificationEpsilon, zones, totalVertices) ==
    IF simplificationEpsilon # <<>> /\ simplificationEpsilon[1] > 0
    THEN (simplificationEpsilon[1] * BaseEpsilon) \div One
    ELSE 0

\* routeHandler from the vertex count to the call of SimplifyPolygons, which
\* is made only for a positive epsilon
RouteChooseEpsilon ==
    /\ fnResult = <<>>
    /\ fnArgs # <<>>
    /\ LET e == ChooseEpsilon(fnArgs.SimplificationEpsilon, fnArgs.noFlyZones,
                              TotalVertices(fnArgs.noFlyZones))
       IN  fnResult' = <<[epsilon |-> e, simplified |-> e > 0]>>
    /\ UNCHANGED <<fnArgs, searchVars, prmVars, srvVars, simpVars, heapVars>>

\* EstimateSimplificationEpsilon called on its own with some vertex count
EstimateCall ==
    /\ fnResult # <<>>
    /\ Len(fnResult) = 1
    /\ \E count \in {0, 1000, 1001, 2000, 2001, 5000, 5001, 10000, 10001,
                     20000, 20001, 30000, 30001, 50000, 50001} :
         fnResult' = Append(fnResult,
             [count |-> count,
              estimate |-> EstimateSimplificationEpsilon(fnArgs.noFlyZones, count)])
    /\ UNCHANGED <<fnArgs, searchVars, prmVars, srvVars, simpVars, heapVars>>

\* the values a request may carry: absent, zero, negative, 0.5, 1, 2.5, 3, 10
EpsilonInputs ==
    {<<>>, <<0>>, <<0 - One>>, <<One \div 2>>, <<One>>, <<(5 * One) \div 2>>,
     <<3 * One>>, <<10 * One>>}

\* candidate lists: none, degree-like and planar coordinates, below and
\* above the first step of the estimate
EpsilonZoneChoices ==
    {<<>>, <<Square>>, <<Square, Wedge>>, <<Band>>, <<Band, Wedge>>,
     <<Blocker>>, <<Blocker, Band>>}

InitEpsilon ==
    /\ \E e \in EpsilonInputs, zones \in EpsilonZoneChoices :
         fnArgs = [SimplificationEpsilon |-> e, noFlyZones |-> zones]
    /\ fnResult = <<>>
    /\ SearchIdle
    /\ NoRoadmap
    /\ NoServer
    /\ NoSimplify
    /\ NoHeap

NextEpsilon == RouteChooseEpsilon \/ EstimateCall

SpecEpsilon == InitEpsilon /\ [][NextEpsilon]_vars

-----------------------------------------------------------------------------
(* A roadmap built around an obstacle, and one query on it *)

\* a square obstacle well inside the sampled region, its diagonal shorter
\* than the connection radius
Plot == Polygon(<<Pt(400, 5100), Pt(406, 5100), Pt(406, 5106), Pt(400, 5106)>>)

\* the points the random generator may yield: two opposite corners of the
\* obstacle, its centre, and points on three sides of it
PlotDrawPoints ==
    {Pt(400, 5100), Pt(406, 5106), Pt(403, 5103), Pt(403, 5097), Pt(410, 5103),
     Pt(396, 5103)}

\* the start points asked for: a corner of the obstacle, a point below it
PlotStarts == {Pt(406, 5100), Pt(403, 5095)}

PlotEnds == {Pt(410, 5106)}

\* draws longer than the number of samples asked for are never all used
MaxPlotDraws == 3

\* the zones the roadmap is built with and the query is asked with
PlotZoneChoices == {<<Plot>>, <<>>}

\* BuildPRMGraph has run at startup with the zones; one route request waits
InitPlot ==
    /\ \E n \in 0..MaxPlotDraws, zones \in PlotZoneChoices :
       \E draws \in [1..n -> PlotDrawPoints] :
         /\ \A i, j \in 1..n : i < j => draws[i] # draws[j]
         /\ LET b == BuildPRMGraph(n, ConnectionRadius, zones, draws)
            IN  /\ globalPRMGraph = b.graph
                /\ nodeArrays = b.nodeArrays
                /\ intArrays = b.intArrays
         /\ \E start \in PlotStarts, end \in PlotEnds :
              fnArgs = [numSamples |-> n, draws |-> draws, noFlyZones |-> zones,
                        start |-> start, end |-> end]
    /\ fnResult = <<>>
    /\ prmQuery = [q \in Queries |-> IdleQuery]
    /\ SearchIdle
    /\ NoServer
    /\ NoSimplify
    /\ NoHeap

\* the waiting request is served by query 1
PlotRouteBegin ==
    /\ prmQuery[1].pc = "idle"
    /\ PRMRouteBeginWith(1, fnArgs.start, fnArgs.end, fnArgs.noFlyZones)

NextPlot ==
    \/ PlotRouteBegin
    \/ PRMConnectStart(1)
    \/ PRMConnectEnd(1)
    \/ PRMRouteAnswer(1)

SpecPlot == InitPlot /\ [][NextPlot]_vars

-----------------------------------------------------------------------------
(* The sampling loop of BuildPRMGraph on its own *)

\* an obstacle that covers the whole sampled region
Region ==
    Polygon(<<Pt(NetherlandsMinLon - 10, NetherlandsMinLat - 10),
              Pt(NetherlandsMaxLon + 10, NetherlandsMinLat - 10),
              Pt(NetherlandsMaxLon + 10, NetherlandsMaxLat + 10),
              Pt(NetherlandsMinLon - 10, NetherlandsMaxLat + 10)>>)

SampleZoneChoices == {<<>>, <<Plot>>, <<Plot, Region>>}

\* the draws repeat after at most this many points
MaxDrawCycle == 3

InitSample ==
    /\ \E n \in 0..MaxPlotDraws, zones \in SampleZoneChoices, len \in 1..MaxDrawCycle :
       \E draws \in [1..len -> PlotDrawPoints] :
          fnArgs = [numSamples |-> n, noFlyZones |-> zones, draws |-> draws]
    /\ fnResult = <<>>
    /\ prmQuery = [q \in Queries |-> IdleQuery]
    /\ globalPRMGraph = <<>> /\ nodeArrays = <<>> /\ intArrays = <<>>
    /\ SearchIdle
    /\ NoServer
    /\ NoSimplify
    /\ NoHeap

\* the loop runs to its end
SampleCall ==
    /\ fnResult = <<>>
    /\ fnResult' = <<SampleLoop(fnArgs.numSamples, fnArgs.noFlyZones, fnArgs.draws,
                                0, <<>>)>>
    /\ UNCHANGED <<fnArgs, searchVars, prmVars, srvVars, simpVars, heapVars>>

NextSample == SampleCall

SpecSample == InitSample /\ [][NextSample]_vars

-----------------------------------------------------------------------------
(* The query rectangle of a route request, on its own *)

BoxPoints == {Pt(-5, 5), Pt(15, 5), Pt(5000, 100), Pt(3, -4000)}

BoxMargins == {0, 1, 1500, 3000}

BoxFactors == {0, 1, 2, 3}

BoxChoices == {<<>>, [MinX |-> 11, MinY |-> 1, MaxX |-> 15, MaxY |-> 9]}

InitBox ==
    /\ \E start \in BoxPoints, end \in BoxPoints, margin \in BoxMargins,
          factor \in BoxFactors, box \in BoxChoices :
          fnArgs = RouteRequest(start, end, margin, factor, box)
    /\ fnResult = <<>>
    /\ NoServer
    /\ NoRoadmap
    /\ SearchIdle
    /\ NoSimplify
    /\ NoHeap

\* routeHandler from the decoded request to the rectangle it queries with
RouteBoxCall ==
    /\ fnResult = <<>>
    /\ fnResult' = <<RouteQueryBox(fnArgs)>>
    /\ UNCHANGED <<fnArgs, searchVars, prmVars, srvVars, simpVars, heapVars>>

NextBox == RouteBoxCall

SpecBox == InitBox /\ [][NextBox]_vars

-----------------------------------------------------------------------------
(* The segment test on its own *)

\* the end points of the segments lie on the grid 0..SegGrid squared
SegGrid == 2

SegPoints == {Pt(x, y) : x \in 0..SegGrid, y \in 0..SegGrid}

\* every pair of segments over the grid, single points included
InitSegments ==
    /\ \E a \in SegPoints, b \in SegPoints, c \in SegPoints, e \in SegPoints :
          fnArgs = [seg1 |-> Seg(a, b), seg2 |-> Seg(c, e)]
    /\ fnResult = <<>>
    /\ NoServer
    /\ NoRoadmap
    /\ SearchIdle
    /\ NoSimplify
    /\ NoHeap

\* the test is called on the pair, in both orders
SegmentsCall ==
    /\ fnResult = <<>>
    /\ fnResult' = <<DoSegmentsIntersect(fnArgs.seg1, fnArgs.seg2),
                     DoSegmentsIntersect(fnArgs.seg2, fnArgs.seg1)>>
    /\ UNCHANGED <<fnArgs, searchVars, prmVars, srvVars, simpVars, heapVars>>

NextSegments == SegmentsCall

SpecSegments == InitSegments /\ [][NextSegments]_vars

-----------------------------------------------------------------------------
(* Route queries on the polygons the index holds (main.go, simplify.go) *)

\* Here coordinates are measured in units of half the closing threshold of
\* SimplifyPolygon (0.5e-9), so that two vertices can be closer than the
\* threshold without being equal.
closeThreshold == 2

\* one unit of the tolerance (0.00001) in these coordinate units
TinyPerEpsilonUnit == 20000

\* a tolerance (in half units) above every distance between the vertices used
\* here; larger tolerances simplify the same way
FarTolerance == 200

AbsDiff(a, b) == IF a >= b THEN a - b ELSE b - a

\* isClosed of SimplifyPolygon
isClosed(first, last) ==
    /\ AbsDiff(first.X, last.X) < closeThreshold
    /\ AbsDiff(first.Y, last.Y) < closeThreshold

\* The vertex array of a polygon after SimplifyPolygon was called on it.  The
\* polygon is passed by value but its Vertices slice shares the array; for a
\* closed polygon of more than 3 vertices openPolygon is Vertices[:n-1], which
\* has room for one more element, so append(openPolygon, openPolygon[0])
\* writes the first vertex into position n-1 of that array.  Nothing else
\* writes to it: douglasPeucker builds its results in new arrays.
VerticesAfterSimplify(polygon) ==
    LET vs == polygon.Vertices
        n == Len(vs)
    IN  IF n <= 3 THEN vs
        ELSE IF isClosed(vs[1], vs[n]) THEN [vs EXCEPT ![n] = vs[1]]
        ELSE vs

\* the positions of the entries SpatialIndex.QueryRegion returns
QueryRegionHits(si, minX, minY, maxX, maxY) ==
    LET bbox == NewRect(minX, minY, maxX, maxY)
    IN  IF ~bbox.ok THEN {}
        ELSE {k \in 1..Len(si.tree) : intersect(si.tree[k].BBox, bbox)}

\* a ring of four corners with a closing vertex
Ring(x, y, closing) ==
    Polygon(<<Pt(x, y), Pt(x + 10, y), Pt(x + 10, y + 10), Pt(x, y + 10), closing>>)

\* the polygons a client may index: rings closed by the first vertex itself,
\* by a vertex closer to it than the threshold, by one farther away; a
\* polygon without closing vertex; a closed triangle
SharedPolygons ==
    {Ring(0, 0, Pt(0, 0)), Ring(0, 0, Pt(1, 0)), Ring(0, 0, Pt(0, 1)),
     Ring(0, 0, Pt(2, 0)), Ring(40, 0, Pt(40, 0)), Ring(40, 0, Pt(41, 1)),
     Polygon(<<Pt(40, 0), Pt(50, 0), Pt(50, 10), Pt(40, 10)>>),
     Polygon(<<Pt(0, 0), Pt(10, 0), Pt(0, 10), Pt(0, 0)>>)}

\* route requests: across the left polygons, across the right ones, with and
\* without a simplification tolerance
SharedRequests ==
    {[req |-> RouteRequest(Pt(-5, 5), Pt(15, 5), 1, 1, <<>>), SimplificationEpsilon |-> e]
        : e \in {<<>>, <<One>>}}
    \cup
    {[req |-> RouteRequest(Pt(35, 5), Pt(55, 5), 1, 1, <<>>), SimplificationEpsilon |-> e]
        : e \in {<<>>, <<One>>}}

\* route queries are counted up to this number
MaxSharedQueries == 2

\* the index was built from one or two polygons; no query was served yet
InitShared ==
    /\ \E n \in 1..2 : \E ps \in [1..n -> SharedPolygons] :
         /\ fnArgs = [polygons |-> ps]
         /\ globalIndex = NewSpatialIndex(ps)
    /\ fnResult = <<>>
    /\ indexMutex = FreeMutex
    /\ prmMutex = FreeMutex
    /\ handler = [h \in Handlers |-> IdleHandler("none", <<>>)]
    /\ NoRoadmap
    /\ SearchIdle
    /\ NoSimplify
    /\ NoHeap

\* routeHandler from the index query to the call of SimplifyPolygons: the
\* candidates are the indexed Polygon values, whose Vertices share the arrays
\* of the index
SharedRoute ==
    /\ Len(fnResult) < MaxSharedQueries
    /\ \E r \in SharedRequests :
         LET box == RouteQueryBox(r.req)
             hits == QueryRegionHits(globalIndex, box.MinX, box.MinY, box.MaxX, box.MaxY)
             tree == globalIndex.tree
             zones == QueryRegion(globalIndex, box.MinX, box.MinY, box.MaxX, box.MaxY)
             e == ChooseEpsilon(r.SimplificationEpsilon, zones, TotalVertices(zones))
             after(p) == Polygon(VerticesAfterSimplify(p))
         IN  IF e > 0
             THEN /\ globalIndex' =
                       [tree |-> [k \in 1..Len(tree) |->
                                    IF k \in hits
                                    THEN [tree[k] EXCEPT !.Polygon = after(tree[k].Polygon)]
                                    ELSE tree[k]]]
                  /\ fnResult' = Append(fnResult,
                       [k \in 1..Len(zones) |->
                          SimplifyPolygon(after(zones[k]),
                                          Min2(2 * e * TinyPerEpsilonUnit, FarTolerance))])
             ELSE /\ globalIndex' = globalIndex
                  /\ fnResult' = Append(fnResult, zones)
    /\ UNCHANGED <<fnArgs, indexMutex, prmMutex, handler, searchVars, prmVars, simpVars, heapVars>>

NextShared == SharedRoute

SpecShared == InitShared /\ [][NextShared]_vars

-----------------------------------------------------------------------------
(* Claims about the bare search *)

\* the summed length of the legs of a point sequence
PathCost(pts) ==
    LET RECURSIVE Sum(_)
        Sum(i) == IF i >= Len(pts) THEN 0
                  ELSE Distance(pts[i], pts[i + 1]) + Sum(i + 1)
    IN  Sum(1)

\* an edge i -> j of g joins the two points
IsEdgeBetween(g, p, q) ==
    \E i \in DOMAIN g.Nodes :
        /\ g.Nodes[i] = p
        /\ \E k \in 1..Len(EdgesOf(g, i)) : NodePoint(g, EdgesOf(g, i)[k].To) = q

RECURSIVE BellmanFord(_, _, _)
\* the pairs <<node, least cost>> of the nodes reached from the pairs in S
\* over walks of at most `rounds` more edges
BellmanFord(g, S, rounds) ==
    IF rounds = 0 THEN S
    ELSE
      LET step == {<<EdgesOf(g, p[1])[k].To, p[2] + EdgesOf(g, p[1])[k].Cost>> :
                     <<p, k>> \in {pk \in S \X (1..Cardinality(DOMAIN g.Nodes)) :
                                     pk[2] <= Len(EdgesOf(g, pk[1][1]))}}
          all == S \cup step
          best == {p \in all : \A q \in all : q[1] = p[1] => p[2] <= q[2]}
      IN  BellmanFord(g, best, rounds - 1)

\* least summed edge cost over all s-to-t paths of g (-1: none)
ShortestCost(g, s, t) ==
    LET reached == BellmanFord(g, {<<s, 0>>}, Cardinality(DOMAIN g.Nodes))
        toT == {p \in reached : p[1] = t}
    IN  IF toT = {} THEN -1 ELSE (CHOOSE p \in toT : TRUE)[2]

\* C2: when the search on a symmetric, distance-weighted graph succeeds, the
\* returned path is an s-to-t path of the graph whose summed edge cost is
\* the least over all s-to-t paths.
C2_AStarOptimal ==
    (phase = "done" /\ success) =>
        /\ Len(path) >= 1
        /\ path[1] = NodePoint(graph, startIdx)
        /\ path[Len(path)] = NodePoint(graph, endIdx)
        /\ \A i \in 1..(Len(path) - 1) : IsEdgeBetween(graph, path[i], path[i + 1])
        /\ PathCost(path) = ShortestCost(graph, startIdx, endIdx)

\* C2 witness: a successful search over several legs that also discovered
\* nodes it did not use and improved on the cost of a direct s-t edge chain
C2_Witness ==
    /\ phase = "done" /\ success
    /\ Len(path) >= 3
    /\ Cardinality(DOMAIN nodeRec) > Len(path)
    /\ Cardinality(closedSet) >= 3

-----------------------------------------------------------------------------
(* Claims about the visibility-graph route query *)

\* every leg of the returned path passes the path-clear test
LegsClear(pts, zones) ==
    \A i \in 1..(Len(pts) - 1) : IsPathClear(pts[i], pts[i + 1], zones)

\* C1: every visibility-graph route query that answers success = true returns
\* a path each of whose legs passes IsPathClear against the obstacle set the
\* graph was built from, whatever the size of the obstacle set.
C1_PathLegsClear ==
    (phase = "done" /\ success) => LegsClear(path, noFlyZones)

\* C1, the part the code keeps: below the node limit every leg is clear
C1_PathLegsClearBelowLimit ==
    (phase = "done" /\ success /\ Cardinality(DOMAIN graph.Nodes) <= MaxGraphNodes)
        => LegsClear(path, noFlyZones)

\* C3: with no obstacles the query succeeds with path exactly [start, end],
\* for any start and end (start = end included), and the cost of the path in
\* the graph is the planar distance from start to end.
C3_NoObstaclesDirect ==
    (phase = "done" /\ noFlyZones = <<>>) =>
        /\ success
        /\ path = <<req.Start, req.End>>
        /\ EdgesOf(graph, 0) = <<Edge(1, Distance(req.Start, req.End))>>
        /\ nodeRec[1].G = Distance(req.Start, req.End)
        /\ PathCost(path) = Distance(req.Start, req.End)

\* C3 witness: an answered query without obstacles between distinct points
C3_Witness ==
    /\ phase = "done" /\ noFlyZones = <<>> /\ req.Start # req.End
    /\ success /\ Len(path) = 2

\* the scenario of C4: the square, start (-5,5), end (15,5)
SquareScenario ==
    /\ noFlyZones = <<Square>>
    /\ req = [Start |-> Pt(-5, 5), End |-> Pt(15, 5)]

\* C4 as stated: in the square scenario the direct segment is blocked and the
\* search succeeds with a path through one polygon vertex, whose cost is the
\* sum of its two legs and exceeds the direct distance.
C4_OneVertexDetour ==
    (SquareScenario /\ phase = "done") =>
        /\ ~IsPathClear(req.Start, req.End, noFlyZones)
        /\ success
        /\ Len(path) = 3
        /\ \E k \in 1..Len(Square.Vertices) : path[2] = Square.Vertices[k]
        /\ PathCost(path) = Distance(path[1], path[2]) + Distance(path[2], path[3])
        /\ PathCost(path) > Distance(req.Start, req.End)

\* C4 amended: in the square scenario the direct segment is blocked and the
\* search succeeds with a path through the two polygon vertices of one side,
\* (0,0),(10,0) or (0,10),(10,10); its cost is the sum of its three legs and
\* exceeds the direct distance 20.
C4_TwoVertexDetour ==
    (SquareScenario /\ phase = "done") =>
        /\ ~IsPathClear(req.Start, req.End, noFlyZones)
        /\ success
        /\ path \in {<<req.Start, Pt(0, 0), Pt(10, 0), req.End>>,
                     <<req.Start, Pt(0, 10), Pt(10, 10), req.End>>}
        /\ LegsClear(path, noFlyZones)
        /\ nodeRec[endIdx].G = Distance(path[1], path[2]) + Distance(path[2], path[3])
                                + Distance(path[3], path[4])
        /\ Distance(req.Start, req.End) = 20 * Scale
        /\ nodeRec[endIdx].G > Distance(req.Start, req.End)

\* C4 witness: the square scenario answered
C4_Witness ==
    SquareScenario /\ phase = "done" /\ success /\ Len(path) = 4

-----------------------------------------------------------------------------
(* Claims about the roadmap queries *)

\* the roadmap read through its own node list: ids, points, neighbour ids
RoadmapView ==
    IF globalPRMGraph = <<>> THEN <<>>
    ELSE LET ns == Elems(nodeArrays, globalPRMGraph.Nodes)
         IN  [k \in 1..Len(ns) |->
                [ID |-> ns[k].ID, Point |-> ns[k].Point,
                 Edges |-> Elems(intArrays, ns[k].Edges)]]

\* the neighbour ids the overlay graph lists for node id
NeighborIds(g, id) == {EdgesOf(g, id)[k].To : k \in 1..Len(EdgesOf(g, id))}

\* the neighbour ids query c may list for node id: the roadmap's, the
\* endpoints this query connected to the node, and for an endpoint the
\* roadmap nodes this query connected it to
OwnNeighborIds(c, id) ==
    LET n == c.g.Nodes.len
        view == RoadmapView
        allowed(p, i) == EdgeAllowed(p, view[i + 1].Point, c.g.ConnectionRadius,
                                     c.NoFlyZones)
    IN  IF id = n THEN {i \in 0..(n - 1) : allowed(c.Start, i)}
        ELSE IF id = n + 1 THEN {i \in 0..(n - 1) : allowed(c.End, i)}
        ELSE {view[id + 1].Edges[k] : k \in 1..Len(view[id + 1].Edges)}
             \cup (IF allowed(c.Start, id) THEN {n} ELSE {})
             \cup (IF allowed(c.End, id) THEN {n + 1} ELSE {})

\* C5: the overlay a query searches lists, for every node, only roadmap
\* neighbours and the start/end connections this query itself found, also
\* when another query runs CreateGraphWithStartEnd at the same time.
C5_OverlayOwnEdgesOnly ==
    \A q \in Queries :
        (prmQuery[q].pc = "done" /\ prmQuery[q].graph # EmptyGraph) =>
            \A id \in DOMAIN prmQuery[q].graph.Nodes :
                NeighborIds(prmQuery[q].graph, id) \subseteq OwnNeighborIds(prmQuery[q], id)

\* C6: no step of CreateGraphWithStartEnd changes the shared roadmap as read
\* through its own node list (node count, ids, points, neighbour-id lists);
\* the start and end nodes are in the query's copy only.
C6_RoadmapUnchanged ==
    [][/\ RoadmapView' = RoadmapView
       /\ \A q \in Queries :
            prmQuery[q]'.pc = "done" =>
               /\ prmQuery[q]'.temp.arr # globalPRMGraph'.Nodes.arr
               /\ prmQuery[q]'.temp.len = Len(RoadmapView') + 2]_vars

\* a query has answered with both endpoints connected after a write went
\* into the spare capacity of a roadmap node's neighbour array
C6_Witness ==
    \E q \in Queries :
        /\ prmQuery[q].pc = "done"
        /\ prmQuery[q].graph # EmptyGraph
        /\ \E k \in 1..globalPRMGraph.Nodes.len :
             LET e == nodeArrays[RoadmapArr][k].Edges
             IN  e.len < e.cap /\ intArrays[e.arr][e.len + 1] # 0

-----------------------------------------------------------------------------
(* Claims about the servers' shared state *)

\* C7: a build request without force never replaces an index or a roadmap
\* that is already built: whenever such a request holds the exclusive lock
\* and is about to store, the shared structure is still nil.
C7_NoForceNeverReplaces ==
    \A h \in Handlers :
        /\ (handler[h].pc = "ci_store" /\ ~handler[h].Force) => globalIndex = <<>>
        /\ (handler[h].pc = "bp_store" /\ ~handler[h].Force) => globalPRMGraph = <<>>

\* C8: a route query reads the shared index (the nil check and the region
\* query) only while it holds the read lock, the index is written only under
\* the exclusive lock, and no such read is concurrent with a write.
C8_IndexAccessLocked ==
    /\ \A h \in Handlers :
         handler[h].pc \in {"rt_nilcheck", "rt_query"} => h \in indexMutex.readers
    /\ \A h \in Handlers :
         handler[h].pc = "ci_store" => indexMutex.writer = h
    /\ \A h, k \in Handlers :
         ~(handler[h].pc \in {"rt_nilcheck", "rt_query"} /\ handler[k].pc = "ci_store")

-----------------------------------------------------------------------------
(* Claims about SimplifyPolygon *)

\* C9: SimplifyPolygon returns at most as many vertices as it was given, and
\* at least 3 when it was given at least 3, whether or not the first vertex
\* is repeated at the end.
C9_VertexCountBounds ==
    Len(simplifyOut) >= 1 =>
        /\ Len(simplifyOut[1].Vertices) <= Len(simplifyArg.Vertices)
        /\ Len(simplifyArg.Vertices) >= 3 => Len(simplifyOut[1].Vertices) >= 3

\* C10: simplifying the result of SimplifyPolygon again with the same epsilon
\* returns that result unchanged.
C10_Idempotent ==
    Len(simplifyOut) = 2 => simplifyOut[2] = simplifyOut[1]

\* both calls made on a closed ring that the first call shortened
C10_Witness ==
    /\ Len(simplifyOut) = 2
    /\ Len(simplifyArg.Vertices) > 3
    /\ simplifyArg.Vertices[1] = simplifyArg.Vertices[Len(simplifyArg.Vertices)]
    /\ Len(simplifyOut[1].Vertices) < Len(simplifyArg.Vertices)
    /\ Len(simplifyOut[1].Vertices) > 3

-----------------------------------------------------------------------------
(* Claims about the spatial index *)

\* the bounding box of a polygon and a rectangle share at least one point
BoxMeetsRect(polygon, r) ==
    LET xs == {polygon.Vertices[k].X : k \in 1..Len(polygon.Vertices)}
        ys == {polygon.Vertices[k].Y : k \in 1..Len(polygon.Vertices)}
    IN  /\ SetMin(xs) <= r.MaxX /\ r.MinX <= SetMax(xs)
        /\ SetMin(ys) <= r.MaxY /\ r.MinY <= SetMax(ys)

\* C11: QueryRegion on the index built from a list of polygons returns every
\* polygon of the list whose bounding box intersects the query rectangle,
\* also for bounding boxes and rectangles of zero width or height.
C11_NoFalseNegatives ==
    fnResult # <<>> =>
        \A k \in 1..Len(fnArgs.polygons) :
            BoxMeetsRect(fnArgs.polygons[k], fnArgs.rect) =>
                \E j \in 1..Len(fnResult[1]) : fnResult[1][j] = fnArgs.polygons[k]

-----------------------------------------------------------------------------
(* Claims about MergeOverlappingPolygons *)

\* every vertex of b is inside a, and b's bounding box lies within a's
LiesWithin(b, a) ==
    /\ Len(b.Vertices) >= 1
    /\ \A k \in 1..Len(b.Vertices) : IsPointInPolygon(b.Vertices[k], a)
    /\ LET xa == {a.Vertices[k].X : k \in 1..Len(a.Vertices)}
           ya == {a.Vertices[k].Y : k \in 1..Len(a.Vertices)}
       IN  \A k \in 1..Len(b.Vertices) :
             /\ SetMin(xa) <= b.Vertices[k].X /\ b.Vertices[k].X <= SetMax(xa)
             /\ SetMin(ya) <= b.Vertices[k].Y /\ b.Vertices[k].Y <= SetMax(ya)

RECURSIVE IsSubList(_, _)
\* sub is obtained from full by leaving elements out
IsSubList(sub, full) ==
    IF sub = <<>> THEN TRUE
    ELSE IF full = <<>> THEN FALSE
    ELSE IF Head(sub) = Head(full) THEN IsSubList(Tail(sub), Tail(full))
    ELSE IsSubList(sub, Tail(full))

\* C12: for a pair of polygons one of which lies within the other (all its
\* vertices inside, its bounding box within the other's), in either order,
\* MergeOverlappingPolygons returns just the containing polygon; for every
\* input the output is a sub-list of the input in the original order and is
\* non-empty when the input is.
C12_ContainmentMerge ==
    fnResult # <<>> =>
        LET ps == fnArgs.polygons
            out == fnResult[1]
        IN  /\ IsSubList(out, ps)
            /\ ps # <<>> => out # <<>>
            /\ Len(ps) = 2 =>
                 \A a, b \in 1..2 :
                    (a # b /\ LiesWithin(ps[b], ps[a])) => out = <<ps[a]>>

\* the contained polygon was given first and only the containing one is left
C12_Witness ==
    /\ fnArgs = [polygons |-> <<InnerTriangle, Square>>]
    /\ fnResult = << <<Square>> >>

-----------------------------------------------------------------------------
(* Claims about saving and loading a roadmap *)

\* a roadmap read through its node list: ids, points, sets of neighbour ids
GraphView(g) ==
    LET ns == Elems(nodeArrays, g.Nodes)
    IN  [k \in 1..Len(ns) |->
           [ID |-> ns[k].ID, Point |-> ns[k].Point,
            Neighbors |-> {Elems(intArrays, ns[k].Edges)[j] : j \in 1..ns[k].Edges.len}]]

-----------------------------------------------------------------------------
(* Claims about the search on degenerate input *)

\* C14: when the graph has no nodes, or the start id or the end id is not a
\* key of the node map (both being the same absent id included), the search
\* ends with an empty path and success = false and has expanded no node.
C14_AbsentIdFailsAtOnce ==
    (/\ phase = "done"
     /\ \/ DOMAIN graph.Nodes = {}
        \/ startIdx \notin DOMAIN graph.Nodes
        \/ endIdx \notin DOMAIN graph.Nodes)
    => /\ path = <<>>
       /\ success = FALSE
       /\ closedSet = {}
       /\ nodeRec = <<>>

-----------------------------------------------------------------------------
(* Claims about the path test against one polygon *)

\* point on an edge of the polygon, vertices included
OnBoundary(point, polygon) ==
    \E i \in 1..Len(polygon.Vertices) :
        LET a == polygon.Vertices[i]
            b == NextVertex(polygon, i)
        IN  (b.X - a.X) * (point.Y - a.Y) = (point.X - a.X) * (b.Y - a.Y)
            /\ Min2(a.X, b.X) <= point.X /\ point.X <= Max2(a.X, b.X)
            /\ Min2(a.Y, b.Y) <= point.Y /\ point.Y <= Max2(a.Y, b.Y)

\* how often the boundary winds around a point off the boundary, counted on
\* the vertical ray upwards from the point
WindingNumber(point, polygon) ==
    LET n == Len(polygon.Vertices)
        side(a, b) == (b.Y - a.Y) * (point.X - a.X) - (point.Y - a.Y) * (b.X - a.X)
        Up == {i \in 1..n :
                 LET a == polygon.Vertices[i]
                     b == NextVertex(polygon, i)
                 IN  a.X <= point.X /\ point.X < b.X /\ side(a, b) > 0}
        Down == {i \in 1..n :
                 LET a == polygon.Vertices[i]
                     b == NextVertex(polygon, i)
                 IN  b.X <= point.X /\ point.X < a.X /\ side(a, b) < 0}
    IN  Cardinality(Up) - Cardinality(Down)

StrictlyInside(point, polygon) ==
    ~OnBoundary(point, polygon) /\ WindingNumber(point, polygon) # 0

StrictlyOutside(point, polygon) ==
    ~OnBoundary(point, polygon) /\ WindingNumber(point, polygon) = 0

\* C15: for a polygon Q of at least 3 vertices, p strictly inside Q and q
\* strictly outside Q, IsPathClear(p, q, {Q}) and IsPathClear(q, p, {Q}) are
\* both false.
C15_InsideToOutsideBlocked ==
    (/\ fnResult # <<>>
     /\ Len(fnArgs.Q.Vertices) >= 3
     /\ StrictlyInside(fnArgs.p, fnArgs.Q)
     /\ StrictlyOutside(fnArgs.q, fnArgs.Q))
    => (fnResult[1] = FALSE /\ fnResult[2] = FALSE)

\* a segment from strictly inside a quadrilateral to strictly outside it
\* that leaves through a vertex has been tested
C15_Witness ==
    /\ fnResult # <<>>
    /\ Len(fnArgs.Q.Vertices) = 4
    /\ StrictlyInside(fnArgs.p, fnArgs.Q)
    /\ StrictlyOutside(fnArgs.q, fnArgs.Q)
    /\ \E i \in 1..4 : /\ direction(fnArgs.p, fnArgs.q, fnArgs.Q.Vertices[i]) = 0
                       /\ onSegment(fnArgs.p, fnArgs.q, fnArgs.Q.Vertices[i])

\* every corner of the polygon turns the same way (strictly)
IsConvex(polygon) ==
    LET n == Len(polygon.Vertices)
        turn(i) == direction(polygon.Vertices[i], NextVertex(polygon, i),
                             NextVertex(polygon, (i % n) + 1))
    IN  (\A i \in 1..n : turn(i) > 0) \/ (\A i \in 1..n : turn(i) < 0)

\* C16: the segment joining two consecutive vertices of an obstacle polygon
\* of at least 3 vertices passes IsPathClear against that polygon, and its
\* end points and its midpoint are not treated as inside (stated here for
\* convex polygons only, where no other edge can be in the way).
C16_EdgeIsClear ==
    (/\ fnResult # <<>>
     /\ Len(fnArgs.Q.Vertices) >= 3
     /\ IsConvex(fnArgs.Q)
     /\ \E i \in 1..Len(fnArgs.Q.Vertices) :
          fnArgs.p = fnArgs.Q.Vertices[i] /\ fnArgs.q = NextVertex(fnArgs.Q, i))
    => /\ fnResult[1] = TRUE
       /\ ~IsPointInPolygon(fnArgs.p, fnArgs.Q)
       /\ ~IsPointInPolygon(fnArgs.q, fnArgs.Q)
       /\ ~PointInPolygonAt(Pt(fnArgs.p.X + fnArgs.q.X, fnArgs.p.Y + fnArgs.q.Y),
                            fnArgs.Q, 2)

-----------------------------------------------------------------------------
(* Claims about the ids CreateGraphWithStartEnd reports *)

\* the number of roadmap nodes the copy's node at 0-based position j has
\* been connected to
OwnEdgeCount(c, j) == NodeAt(nodeArrays, c.temp, j).Edges.len

\* C17: CreateGraphWithStartEnd reports -1 as the start id exactly when the
\* start point was connected to no roadmap node and -1 as the end id exactly
\* when the end point was connected to none, each independently of the other.
C17_EndpointIdsIndependent ==
    \A q \in Queries :
        prmQuery[q].pc = "done" =>
            LET c == prmQuery[q]
                n == c.g.Nodes.len
            IN  /\ (c.startNodeID = -1) <=> (OwnEdgeCount(c, n) = 0)
                /\ (c.endNodeID = -1) <=> (OwnEdgeCount(c, n + 1) = 0)

-----------------------------------------------------------------------------
(* Claims about the vertex cap of the route query *)

\* the cap on the candidates' vertices
RouteVertexCap == 10000

\* the candidates' vertices, counted polygon by polygon
RECURSIVE CountVertices(_)
CountVertices(zones) ==
    IF zones = <<>> THEN 0
    ELSE Len(Head(zones).Vertices) + CountVertices(Tail(zones))

\* C18: a route query whose candidate obstacles have more than 10000
\* vertices in total is rejected and neither builds a visibility graph nor
\* runs the search; a query with at most 10000 is never rejected, and once
\* past the check it has built the graph on which the search runs.
C18_VertexCap ==
    /\ CountVertices(noFlyZones) > RouteVertexCap =>
         /\ phase \in {"build", "rejected"}
         /\ graph = EmptyGraph
         /\ nodeRec = <<>> /\ closedSet = {} /\ path = <<>> /\ success = FALSE
    /\ CountVertices(noFlyZones) <= RouteVertexCap =>
         /\ phase \in {"build", "search", "loop", "done"}
         /\ phase # "build" => {0, 1} \subseteq DOMAIN graph.Nodes

\* a query three vertices over the cap has been rejected
C18_Witness ==
    phase = "rejected" /\ CountVertices(noFlyZones) = RouteVertexCap + 3

-----------------------------------------------------------------------------
(* Claims about the tolerance of the route query *)

\* C19: the tolerance a route query applies is the request's
\* simplificationEpsilon when one is supplied (> 0), and otherwise the value
\* of EstimateSimplificationEpsilon for the candidates and their total vertex
\* count.
C19_ToleranceApplied ==
    fnResult # <<>> =>
        LET given == fnArgs.SimplificationEpsilon
        IN  fnResult[1].epsilon =
              IF given # <<>> /\ given[1] > 0 THEN given[1]
              ELSE EstimateSimplificationEpsilon(fnArgs.noFlyZones,
                                                 TotalVertices(fnArgs.noFlyZones))

\* the estimate never decreases as the vertex count grows
C19_EstimateMonotone ==
    Len(fnResult) = 2 =>
        \A n \in {0, 1000, 1001, 2000, 5001, 10001, 20001, 30001, 50001} :
            n <= fnResult[2].count =>
                EstimateSimplificationEpsilon(fnArgs.noFlyZones, n) <= fnResult[2].estimate

-----------------------------------------------------------------------------
(* Claims about what the search finds *)

RECURSIVE ReachableFrom(_, _)
\* the ids reached from the ids in S by following edges of g
ReachableFrom(g, S) ==
    LET next == S \cup {g.Edges[i][k].To :
                          <<i, k>> \in {ik \in (S \cap DOMAIN g.Edges) \X (1..Cardinality(DOMAIN g.Nodes)) :
                                          ik[2] <= Len(g.Edges[ik[1]])}}
    IN  IF next = S THEN S ELSE ReachableFrom(g, next)

\* C20: on a graph that has both endpoint ids, the search ends with success
\* exactly when the end node is reachable from the start node by following
\* edges; when it fails the path is empty.
C20_SuccessIffReachable ==
    (/\ phase = "done"
     /\ startIdx \in DOMAIN graph.Nodes
     /\ endIdx \in DOMAIN graph.Nodes)
    => /\ success <=> (endIdx \in ReachableFrom(graph, {startIdx}))
       /\ ~success => path = <<>>

\* a search has succeeded over three one-way edges, and the way back does
\* not exist
C20_Witness ==
    /\ phase = "done" /\ success
    /\ Len(path) = 4
    /\ startIdx \notin ReachableFrom(graph, {endIdx})

-----------------------------------------------------------------------------
(* Claims about the graphs handed to the search *)

\* the number of edges from i to j with the given cost
EdgeCount(g, i, j, cost) ==
    Cardinality({k \in 1..Len(EdgesOf(g, i)) :
                   EdgesOf(g, i)[k].To = j /\ EdgesOf(g, i)[k].Cost = cost})

\* every edge has its reverse, with the same cost
IsSymmetric(g) ==
    \A i \in DOMAIN g.Edges : \A k \in 1..Len(g.Edges[i]) :
        LET e == g.Edges[i][k]
        IN  EdgeCount(g, e.To, i, e.Cost) = EdgeCount(g, i, e.To, e.Cost)

\* C21: in every graph a query running alone hands to the search, built by
\* BuildVisibilityGraph (its fallback above the node limit included) or by
\* CreateGraphWithStartEnd and ConvertToGraph, an edge i->j is present if and
\* only if the edge j->i is present, and both carry the same cost.
C21_EdgesSymmetric ==
    /\ phase \in {"search", "loop", "done"} => IsSymmetric(graph)
    /\ \A q \in Queries : prmQuery[q].pc = "done" => IsSymmetric(prmQuery[q].graph)

\* a roadmap query that ran after another one has connected both endpoints,
\* the start to at least two roadmap nodes
C21_Witness ==
    /\ prmQuery[1].pc = "done"
    /\ prmQuery[2].pc = "done"
    /\ prmQuery[2].startNodeID # -1 /\ prmQuery[2].endNodeID # -1
    /\ Len(EdgesOf(prmQuery[2].graph, prmQuery[2].startNodeID)) >= 2

-----------------------------------------------------------------------------
(* Claims about the search's priority queue *)

\* the ids in the priority queue
QueuedIds == {pq[i] : i \in 1..Len(pq)}

\* C22: no node id is popped more than once: an id in the closed set is not
\* in the queue again, no id has two entries in the queue, and the number of
\* pops is the number of closed ids, plus one for the goal when it was found;
\* so there is at most one pop per node id.
C22_OnePopPerNode ==
    /\ QueuedIds \cap closedSet = {}
    /\ Cardinality(QueuedIds) = Len(pq)
    /\ nodesExplored = Cardinality(closedSet)
                       + (IF phase = "done" /\ success THEN 1 ELSE 0)
    /\ phase = "done" /\ success => endIdx \notin closedSet
    /\ nodesExplored <= Cardinality(DOMAIN graph.Nodes)

\* every node of the graph has been popped once, the goal last
C22_Witness ==
    /\ phase = "done" /\ success
    /\ nodesExplored = 4
    /\ closedSet = {0, 1, 2}

\* no entry of the queue has a lower F than its parent in the heap, and every
\* entry's Index is its position
HeapOrdered ==
    \A i \in 1..Len(pq) :
        /\ nodeRec[pq[i]].Index = i - 1
        /\ i > 1 => nodeRec[pq[i \div 2]].F <= nodeRec[pq[i]].F

\* the id a step pops, if it pops one
PoppedId == IF closedSet' # closedSet
            THEN CHOOSE id \in closedSet' \ closedSet : TRUE
            ELSE endIdx

\* C23: after a strictly lower g was found for a queued node, its g, f = g + h
\* and parent are updated and the heap order is restored before the next pop:
\* between iterations the queue is a heap on f, the open-set map and the
\* queue hold exactly the same nodes, every f is g + h, and every pop returns
\* a node whose f is least among the nodes then open.
C23_PopsLeastF ==
    /\ [](/\ HeapOrdered
          /\ QueuedIds = openSet
          /\ \A id \in DOMAIN nodeRec : nodeRec[id].F = nodeRec[id].G + nodeRec[id].H)
    /\ [][nodesExplored' = nodesExplored + 1 =>
             /\ PoppedId \in openSet
             /\ \A m \in openSet : nodeRec[PoppedId].F <= nodeRec[m].F]_vars

\* a node that was not at the top of the queue has got a lower g and has
\* moved to the top
C23_Witness ==
    /\ phase = "loop"
    /\ Len(pq) >= 2
    /\ \E id \in openSet :
         /\ pq[1] = id
         /\ nodeRec[id].Parent # <<0>>
         /\ \E k \in 1..Len(EdgesOf(graph, 0)) :
              /\ EdgesOf(graph, 0)[k].To = id
              /\ EdgesOf(graph, 0)[k].Cost + nodeRec[id].H > nodeRec[pq[2]].F

-----------------------------------------------------------------------------
(* Claims about the path the search returns *)

\* C24: when the search succeeds, the returned points begin with the start
\* node's point and end with the end node's point, they are the points of a
\* chain of node ids in which every id has an edge of the graph to the next,
\* and no node id occurs twice in the chain.
C24_PathIsSimpleWalk ==
    (phase = "done" /\ success) =>
        LET ids == ReconstructIds(nodeRec, endIdx)
        IN  /\ Len(path) >= 1
            /\ path[1] = NodePoint(graph, startIdx)
            /\ path[Len(path)] = NodePoint(graph, endIdx)
            /\ path = [i \in 1..Len(ids) |-> NodePoint(graph, ids[i])]
            /\ ids[1] = startIdx /\ ids[Len(ids)] = endIdx
            /\ \A i \in 1..(Len(ids) - 1) :
                 \E k \in 1..Len(EdgesOf(graph, ids[i])) :
                     EdgesOf(graph, ids[i])[k].To = ids[i + 1]
            /\ \A i, j \in 1..Len(ids) : i # j => ids[i] # ids[j]

\* a path over three nodes was returned on a graph that also has an edge
\* from the end back to the start
C24_Witness ==
    /\ phase = "done" /\ success
    /\ Len(path) = 3
    /\ \E k \in 1..Len(EdgesOf(graph, endIdx)) : EdgesOf(graph, endIdx)[k].To = startIdx

-----------------------------------------------------------------------------
(* Claims about the edges of the roadmap *)

\* the condition the claim gives for an edge: within the radius and passing
\* the full path-clear test against every zone
WithinRadiusAndClear(p1, p2, radius, zones) ==
    /\ distance(p1, p2) <= radius
    /\ IsPathClear(p1, p2, zones)

\* C25: in the roadmap BuildPRMGraph produces, two distinct nodes are
\* neighbours exactly when their distance is at most the connection radius
\* and the segment between them passes the full path-clear test against every
\* zone; the same condition decides every edge CreateGraphWithStartEnd adds
\* between the start or end point and a roadmap node.
C25_EdgesPassFullClearTest ==
    LET view == RoadmapView
        n == Len(view)
        zones == fnArgs.noFlyZones
        radius == globalPRMGraph.ConnectionRadius
        c == prmQuery[1]
    IN  /\ \A i, j \in 1..n :
              i # j =>
                 ((\E k \in 1..Len(view[i].Edges) : view[i].Edges[k] = j - 1)
                    <=> WithinRadiusAndClear(view[i].Point, view[j].Point, radius, zones))
        /\ c.pc = "done" =>
              \A i \in 1..n :
                 LET own(id) == Elems(intArrays, NodeAt(nodeArrays, c.temp, id).Edges)
                 IN  /\ (\E k \in 1..Len(own(n)) : own(n)[k] = i - 1)
                          <=> WithinRadiusAndClear(c.Start, view[i].Point, radius, zones)
                     /\ (\E k \in 1..Len(own(n + 1)) : own(n + 1)[k] = i - 1)
                          <=> WithinRadiusAndClear(c.End, view[i].Point, radius, zones)

-----------------------------------------------------------------------------
(* Claims about the sampling loop *)

\* C26: for every number of samples n >= 0 and every obstacle set, one that
\* covers the whole region included, the sampling loop ends after at most
\* 10 * n attempts, leaves at most n nodes, and no node it leaves lies inside
\* an obstacle by IsPointInPolygon.
C26_SamplingBounded ==
    fnResult # <<>> =>
        LET r == fnResult[1]
            n == fnArgs.numSamples
            zones == fnArgs.noFlyZones
        IN  /\ r.attempts <= 10 * n
            /\ Len(r.points) <= n
            /\ Len(r.points) = n \/ r.attempts = 10 * n
            /\ \A k \in 1..Len(r.points), z \in 1..Len(zones) :
                  ~IsPointInPolygon(r.points[k], zones[z])

\* three samples were asked for under an obstacle covering the region: the
\* loop gave up after 30 attempts with no node
C26_Witness ==
    /\ fnResult # <<>>
    /\ fnArgs.numSamples = 3
    /\ fnArgs.noFlyZones = <<Plot, Region>>
    /\ fnResult[1].attempts = 30
    /\ fnResult[1].points = <<>>

-----------------------------------------------------------------------------
(* Claims about the query rectangle *)

\* the margin and the expansion factor in effect for a request: the values
\* it carries, or the defaults where it carries none (zero)
MarginInEffect(r) == IF r.Margin = 0 THEN DefaultMargin ELSE r.Margin

FactorInEffect(r) == IF r.ExpansionFactor = 0 THEN 1 ELSE r.ExpansionFactor

\* on one axis, [lo, hi] (half units) is [min - e, max + e] for the two
\* coordinates a and b, with e the greater of margin and half the span times
\* the factor
InflatedBy(lo, hi, a, b, margin, factor) ==
    LET e2 == 2 * Min2(a, b) - lo
        half2 == (Max2(a, b) - Min2(a, b)) * factor
    IN  /\ hi = 2 * Max2(a, b) + e2
        /\ e2 >= 2 * margin /\ e2 >= half2
        /\ e2 = 2 * margin \/ e2 = half2

-----------------------------------------------------------------------------
(* Claims about the segment test *)

\* the two segments have an end point in common
ShareEndpoint(seg1, seg2) == {seg1.P1, seg1.P2} \cap {seg2.P1, seg2.P2} # {}

\* C28: DoSegmentsIntersect returns false for every pair of segments with at
\* least one end point in common (identical and reversed segments and
\* segments that overlap along a line beyond the shared end point included),
\* and it returns the same for a pair of segments in either order.
C28_SharedEndpointNeverIntersects ==
    fnResult # <<>> =>
        /\ ShareEndpoint(fnArgs.seg1, fnArgs.seg2) => ~fnResult[1]
        /\ fnResult[1] = fnResult[2]

\* the segment (0,0)-(2,0) and its first half (0,0)-(1,0) were tested: they
\* overlap along a line and the answer is false
C28_Witness ==
    /\ fnResult = <<FALSE, FALSE>>
    /\ fnArgs = [seg1 |-> Seg(Pt(0, 0), Pt(2, 0)), seg2 |-> Seg(Pt(0, 0), Pt(1, 0))]

-----------------------------------------------------------------------------
(* Claims about the polygons of the shared index *)

\* C29: a route query never changes the polygons the shared index holds:
\* after any sequence of route queries, with or without a simplification
\* tolerance, on polygons with or without a repeated closing vertex, every
\* indexed polygon has the vertices, in value and order, that it had when the
\* index was built.
C29_IndexedPolygonsUnchanged ==
    LET built == NewSpatialIndex(fnArgs.polygons).tree
    IN  /\ Len(globalIndex.tree) = Len(built)
        /\ \A k \in 1..Len(built) :
              globalIndex.tree[k].Polygon.Vertices = built[k].Polygon.Vertices

-----------------------------------------------------------------------------
(* Claims about node ids and positions *)

\* in the node list ns every node has its 0-based position as id, and every
\* neighbour id it lists is a position of ns, holding the node with that id
IdsArePositions(ns) ==
    \A k \in 1..Len(ns) :
        /\ ns[k].ID = k - 1
        /\ \A j \in 1..ns[k].Edges.len :
              LET neighborID == Elems(intArrays, ns[k].Edges)[j]
              IN  /\ neighborID \in 0..(Len(ns) - 1)
                  /\ ns[neighborID + 1].ID = neighborID

\* C30: in every roadmap BuildPRMGraph produced and in every overlay
\* CreateGraphWithStartEnd made from it, the node at position k has id k and
\* every neighbour id is a valid position of the node list, so the lookups
\* Nodes[neighborID] of ConvertToGraph and GetGraphAsLineStrings are in range
\* and give the node with that id.
C30_IdsArePositions ==
    /\ globalPRMGraph # <<>> => IdsArePositions(Elems(nodeArrays, globalPRMGraph.Nodes))
    /\ \A q \in Queries :
          prmQuery[q].pc # "idle" => IdsArePositions(Elems(nodeArrays, prmQuery[q].temp))

\* a query has finished on a roadmap of five nodes with both end points
\* connected, while the other query is still connecting
C30_Witness ==
    \E q \in Queries :
        /\ prmQuery[q].pc = "done"
        /\ prmQuery[q].startNodeID = 5 /\ prmQuery[q].endNodeID = 6
        /\ OwnEdgeCount(prmQuery[q], 5) > 0
        /\ \E q2 \in Queries : prmQuery[q2].pc \in {"start", "end"}

====
